---- MODULE Spec2Model ----
(***************************************************************************)
(* The WebSocket long-connection client of open-event-sdk-node             *)
(* (src/unnamed/part_008, class Client) and its reconnect policy           *)
(* (src/unnamed/part_006), as a state machine of the Node.js event loop.   *)
(*                                                                         *)
(* One action is one event-loop task: a call made by the user (start,      *)
(* stop), an event emitted by a socket (open, error, unexpected-response,  *)
(* message, ping, close), a timer that fires (connect timeout, backoff     *)
(* delay, pong deadline) or a user handler's promise that settles.  The    *)
(* promise continuations of the async functions start() and reconnect()    *)
(* are the "microtask" actions: they run, one synchronous block at a time, *)
(* before the next task is taken (Idle guards every task).                 *)
(*                                                                         *)
(* Every start() call is a record of calls: the stack of the promises it   *)
(* is awaiting (innermost last) and the signal travelling to the top       *)
(* frame: "wait" (the top frame is a pending promise), "ok" (the awaited   *)
(* promise resolved) or the name of the error it rejected with.  A call    *)
(* whose stack is empty has settled; sig is then its outcome.              *)
(***************************************************************************)
EXTENDS Integers, Sequences, FiniteSets, TLC

\* ------------------------------------------------------------------ bounds
\* Spec, SpecReentrant and FairSpec follow the connection through its life:
MaxSockets == 3      \* WebSockets created
MaxStarts  == 2      \* start() calls made
MaxGoAways == 1      \* goaway frames received
\* SpecReentrant, where calls of start() overlap:
ReentrantSockets == 3 \* WebSockets created
\* SpecPipeline follows the frames of a shorter life:
PipelineSockets == 2 \* WebSockets created
PipelineStarts  == 1 \* start() calls made
MaxFrames       == 2 \* text frames received

\* --------------------------------------------------------------- constants
MaxRetryUnlimited == -1   \* DefaultConfig.RECONNECT_MAX_RETRY: no limit
AckOk    == 200
AckError == 500
AckMsgLimit == 256        \* sendAck(): the longest msg sent whole

VARIABLES
  state,             \* this.state: connectionState, receivedGoAway, retryCount
  ws,                \* this.ws: a socket (index of socks) or 0 for null
  reconnectConfig,   \* this.reconnectConfig
  ackMode,           \* this.ackMode
  handler,           \* this.handler is set
  dispatcher,        \* this.dispatcher is set
  abortController,   \* this.abortController: 0 for null, else the controller
  aborted,           \* the AbortControllers whose signal has been aborted
  pongTimeoutTimer,  \* this.pongTimeoutTimer: a timer, or 0 for null
  timers,            \* the pong-deadline timers that are pending
  socks,             \* every WebSocket created so far
  calls,             \* every start() call made so far
  events,            \* every inbound text frame received so far
  acks,              \* every ACK frame written so far
  stopped,           \* stop() has been called
  handlers,          \* Dispatcher.handlers: the Map's entries, oldest first
  fallback,          \* Dispatcher.fallback: a handler, or NoHandler
  registrations,     \* every registration call made so far
  invocations,       \* every call of a registered handler made so far
  promises,          \* the promise of every Dispatcher.handle() call so far
  input,             \* the arguments of a call of an exported function
  output             \* what that call returned or threw (<<>>: not made)

\* the state outside the Client: the Dispatcher's, and a function call's
libVars == <<handlers, fallback, registrations, invocations, promises,
             input, output>>

vars == <<state, ws, reconnectConfig, ackMode, handler, dispatcher, libVars,
          abortController, aborted, pongTimeoutTimer, timers, socks, calls, events,
          acks, stopped>>

\* ws/types.ts ConnectionState
Disconnected == "disconnected"
Connecting   == "connecting"
Connected    == "connected"
Reconnecting == "reconnecting"
Closed       == "closed"
ConnectionState == {Disconnected, Connecting, Connected, Reconnecting, Closed}

\* errors/index.ts: ClientError is the only kind start() and reconnect()
\* rethrow without retrying; "Error" is a plain Error (a socket 'error'
\* event, or delay()'s 'Aborted').
ErrorKinds == {"ClientError", "ServerError", "Error", "HandlerNotSetError",
               "ClientClosedError", "ReconnectExceededError"}

\* ------------------------------------------------------- reconnect policy

RECURSIVE Pow(_, _)
Pow(b, e) == IF e <= 0 THEN 1 ELSE b * Pow(b, e - 1)

Min(a, b) == IF a <= b THEN a ELSE b

\* calculateBackoff() as it would be if the first retry already multiplied
calculateBackoffFromZero(config, retryCount) ==
  Min(config.baseInterval * Pow(config.multiplier, retryCount),
      config.maxInterval)

\* calculateBackoff() where config.jitter <= 0, as every config the Client
\* is given here has it: the wait before attempt number retryCount, in ms
calculateBackoff(config, retryCount) ==
  Min(config.baseInterval * Pow(config.multiplier, retryCount - 1),
      config.maxInterval)

\* config.jitter is kept in hundredths: 20 is the default 0.2
JitterUnit == 100
\* Math.random() is random / Draws, for random in 0 .. Draws - 1
Draws == 4
\* Math.round(num / den): the nearest integer, a half going up
Round(num, den) == (2 * num + den) \div (2 * den)

\* calculateBackoff() as it would be if the jitter were spread around the
\* interval before maxInterval caps it
calculateBackoffUncapped(config, retryCount, random) ==
  LET interval == config.baseInterval * Pow(config.multiplier, retryCount - 1)
      minInterval == interval * (JitterUnit - config.jitter)
      maxJitteredInterval == interval * (JitterUnit + config.jitter)
  IN IF config.jitter <= 0 THEN calculateBackoff(config, retryCount)
     ELSE Round(minInterval * Draws
                  + random * (maxJitteredInterval - minInterval),
                JitterUnit * Draws)

\* calculateBackoff() whole, for the value Math.random() returns: with
\* jitter > 0 the interval is spread over
\* [interval * (1 - jitter), interval * (1 + jitter)) and rounded.
\* minInterval and maxJitteredInterval are in units of 1 / JitterUnit ms.
calculateBackoffRandom(config, retryCount, random) ==
  LET interval == calculateBackoff(config, retryCount)
      minInterval == interval * (JitterUnit - config.jitter)
      maxJitteredInterval == interval * (JitterUnit + config.jitter)
  IN IF config.jitter <= 0 THEN interval
     ELSE Round(minInterval * Draws
                  + random * (maxJitteredInterval - minInterval),
                JitterUnit * Draws)

\* shouldReconnect() as it would be if retryCount = maxRetry were allowed
shouldReconnectInclusive(config, retryCount) ==
  /\ config.autoReconnect
  /\ (config.maxRetry < 0 \/ retryCount <= config.maxRetry)

\* shouldReconnect(): the policy allows attempt number retryCount
shouldReconnect(config, retryCount) ==
  IF ~config.autoReconnect THEN FALSE
  ELSE IF config.maxRetry < 0 THEN TRUE
  ELSE retryCount < config.maxRetry

\* parseConnectError as it would be if only 401 were a client error
parseConnectError401(statusCode) ==
  IF statusCode = 401 THEN "ClientError" ELSE "ServerError"

\* parseConnectError: the error kind of a handshake answered with `status`
HandshakeStatuses == {401, 403, 429, 500}
parseConnectError(statusCode) ==
  IF statusCode \in {401, 403} THEN "ClientError" ELSE "ServerError"

\* ----------------------------------------------------------------- frames
\* the awaited promises of a start() call
StartFrame(at)     == [k |-> "start", at |-> at, sock |-> 0, ac |-> 0]
ReconnectFrame(at) == [k |-> "reconnect", at |-> at, sock |-> 0, ac |-> 0]
ConnectFrame(s)    == [k |-> "connect", at |-> "", sock |-> s, ac |-> 0]
DelayFrame(a, ms)  == [k |-> "delay", at |-> "", sock |-> 0, ac |-> a,
                       ms |-> ms]
WaitFrame(s, a)    == [k |-> "waitForClose", at |-> "", sock |-> s, ac |-> a]

Top(stk)  == stk[Len(stk)]
Pop(stk)  == SubSeq(stk, 1, Len(stk) - 1)
SetAt(stk, at) == [stk EXCEPT ![Len(stk)].at = at]

Settled(c)  == calls[c].stack = <<>>
Waiting(c)  == ~Settled(c) /\ calls[c].sig = "wait"
Runnable(c) == ~Settled(c) /\ calls[c].sig # "wait"
\* no promise continuation is queued: the event loop takes the next task
Idle == \A c \in DOMAIN calls : ~Runnable(c)

\* new WebSocket(...) in connect(), made for call c by start() or by
\* reconnect() (via).  The other fields are history: the socket has been
\* open (opened); the handshake was answered with an HTTP status (0: it
\* was not); the pong deadline fired while it was the client's socket
\* (deadline); a connection_replaced goaway, or a ReconnectExceededError in
\* call c, came before the socket was made; the payloads of the first pings
\* it received (pings) and the control frames written on it in answer
\* (sent).
NewSocket(c, via) ==
  [readyState |-> "connecting", by |-> c, via |-> via, opened |-> FALSE,
   status |-> 0, deadline |-> FALSE, pings |-> <<>>, sent |-> <<>>,
   afterReplaced |-> \E i \in DOMAIN events :
                       /\ events[i].status = "goaway"
                       /\ events[i].frame.reason = "connection_replaced",
   afterExceeded |-> IF c \in DOMAIN calls THEN calls[c].exceeded ELSE FALSE]

\* isConnected()
isConnected == state.connectionState = Connected /\ ws # 0

\* ws.terminate(): an open or connecting socket is destroyed, its 'close'
\* event follows in a later task
terminate(ss, s) ==
  IF s = 0 THEN ss
  ELSE [ss EXCEPT ![s].readyState =
          IF @ \in {"connecting", "open"} THEN "closing" ELSE @]

\* clearPongTimeout(): the fields it writes, as a record; clearTimeout()
\* of a timer that has fired does nothing
clearPongTimeout ==
  [pongTimeoutTimer |-> 0,
   timers |-> timers \ {pongTimeoutTimer}]

\* setTimeout(): a timer that is not pending
newTimer(pending) ==
  CHOOSE t \in 1 .. Cardinality(pending) + 1 : t \notin pending

\* setupPongTimeout() as it would be without its clearPongTimeout()
setupPongTimeoutLeaks ==
  [pongTimeoutTimer |-> newTimer(timers),
   timers |-> timers \cup {newTimer(timers)}]

\* setupPongTimeout() and resetPongTimeout(): the fields they write
setupPongTimeout ==
  [pongTimeoutTimer |-> newTimer(clearPongTimeout.timers),
   timers |-> clearPongTimeout.timers
                \cup {newTimer(clearPongTimeout.timers)}]

\* this.pongTimeoutTimer holds a timer that is pending
Armed == pongTimeoutTimer \in timers

\* disconnect() as it would be if it terminated the socket and kept this.ws
disconnectKeepsSocket ==
  [pongTimeoutTimer |-> clearPongTimeout.pongTimeoutTimer,
   timers |-> clearPongTimeout.timers,
   socks |-> terminate(socks, ws),
   ws |-> ws,
   connectionState |-> IF state.connectionState # Closed THEN Disconnected
                       ELSE state.connectionState]

\* disconnect(): the fields it writes, as a record
disconnect ==
  [pongTimeoutTimer |-> clearPongTimeout.pongTimeoutTimer,
   timers |-> clearPongTimeout.timers,
   socks |-> terminate(socks, ws),
   ws |-> 0,
   connectionState |-> IF state.connectionState # Closed THEN Disconnected
                       ELSE state.connectionState]


\* waitForClose(), called by the frame on top of stk: with no socket it
\* resolves at once, else it listens on this.ws and on the abort signal
waitForClose(stk) ==
  IF ws = 0
  THEN [stack |-> SetAt(stk, "waitForClose"), sig |-> "ok"]
  ELSE [stack |-> Append(SetAt(stk, "waitForClose"),
                         WaitFrame(ws, abortController)),
        sig |-> "wait"]

\* one pass of reconnect()'s loop up to its first await, retryCount having
\* been incremented to n: give up, find the signal aborted, or start a delay
loopOutcome(n) ==
  IF ~shouldReconnect(reconnectConfig, n) THEN "ReconnectExceededError"
  ELSE IF abortController \in aborted THEN "ClientClosedError"
  ELSE "wait"

\* the call after that pass; stk has reconnect()'s frame on top
reconnectLoop(call, stk, n) ==
  LET o == loopOutcome(n) IN
  [call EXCEPT
     !.stack = IF o = "wait"
               THEN Append(SetAt(stk, "delay"),
                           DelayFrame(abortController,
                                      calculateBackoff(reconnectConfig, n)))
               ELSE Pop(stk),
     !.sig = o,
     !.exceeded = @ \/ o = "ReconnectExceededError"]

\* ------------------------------------------------------------------- Init
RECONNECT_BASE_INTERVAL == 1000
RECONNECT_MAX_INTERVAL  == 60000
RECONNECT_MULTIPLIER    == 2
MaxRetryLimit == 2   \* the finite reconnectMaxRetry tried besides 0

RetryLimits == {MaxRetryUnlimited, 0, MaxRetryLimit}

\* the client as constructed, for the options in the given sets
\* Dispatcher.fallback while undefined; a handler is the user's function and
\* whether a typed helper wrapped it
NoHandler == [fn |-> "", typed |-> FALSE]

InitConfig(autoReconnects, retryLimits, maxIntervals, ackModes, sinks) ==
  /\ state = [connectionState |-> Disconnected, receivedGoAway |-> FALSE,
              retryCount |-> 0]
  /\ ws = 0
  /\ \E a \in autoReconnects, m \in retryLimits, x \in maxIntervals :
       reconnectConfig = [autoReconnect |-> a,
                          baseInterval |-> RECONNECT_BASE_INTERVAL,
                          maxInterval |-> x,
                          multiplier |-> RECONNECT_MULTIPLIER,
                          maxRetry |-> m,
                          jitter |-> 0]
  /\ ackMode \in ackModes
  /\ \E k \in sinks : handler = k[1] /\ dispatcher = k[2]
  /\ abortController = 0
  /\ aborted = {}
  /\ pongTimeoutTimer = 0
  /\ timers = {}
  /\ socks = <<>>
  /\ calls = <<>>
  /\ events = <<>>
  /\ acks = <<>>
  /\ stopped = FALSE
  /\ handlers = <<>>
  /\ fallback = NoHandler
  /\ registrations = <<>>
  /\ invocations = <<>>
  /\ promises = <<>>
  /\ input = <<>>
  /\ output = <<>>

\* the same with autoReconnect on or off and reconnectMaxInterval left at
\* its default
InitWith(retryLimits, ackModes, sinks) ==
  InitConfig(BOOLEAN, retryLimits, {RECONNECT_MAX_INTERVAL}, ackModes, sinks)

\* ------------------------------------------------------------- user calls

NewCall(stk, sig) ==
  [stack |-> stk, sig |-> sig, afterStop |-> stopped, exceeded |-> FALSE]

\* start(): the checks, the new AbortController, and connect() up to the
\* pending handshake
StartBody(maxStarts, maxSockets) ==
  /\ Idle
  /\ Len(calls) < maxStarts
  /\ UNCHANGED <<ws, reconnectConfig, ackMode, handler, dispatcher, libVars, aborted,
                 pongTimeoutTimer, timers, events, acks, stopped>>
  /\ IF state.connectionState = Closed
     THEN /\ calls' = Append(calls, NewCall(<<>>, "ClientClosedError"))
          /\ UNCHANGED <<state, abortController, socks>>
     ELSE IF ~handler /\ ~dispatcher
     THEN /\ calls' = Append(calls, NewCall(<<>>, "HandlerNotSetError"))
          /\ UNCHANGED <<state, abortController, socks>>
     ELSE /\ Len(socks) < maxSockets
          /\ abortController' = Len(calls) + 1
          /\ state' = [state EXCEPT !.connectionState = Connecting]
          /\ socks' = Append(socks, NewSocket(Len(calls) + 1, "start"))
          /\ calls' = Append(calls,
                        NewCall(<<StartFrame("connect"),
                                  ConnectFrame(Len(socks) + 1)>>, "wait"))

\* start() called while no earlier start() is still pending
Start(maxStarts, maxSockets) ==
  StartBody(maxStarts, maxSockets) /\ \A c \in DOMAIN calls : Settled(c)

\* start() called again while an earlier start() is still pending
StartReentrant(maxStarts, maxSockets) ==
  StartBody(maxStarts, maxSockets) /\ \E c \in DOMAIN calls : ~Settled(c)

\* the listeners abort() runs on the signal of controller a: a pending
\* delay() rejects, a pending waitForClose() cleans up and resolves
abortListeners(a) ==
  [c \in DOMAIN calls |->
     IF Waiting(c) /\ Top(calls[c].stack).ac = a
        /\ Top(calls[c].stack).k \in {"delay", "waitForClose"}
     THEN [calls[c] EXCEPT
             !.stack = Pop(@),
             !.sig = IF Top(calls[c].stack).k = "delay" THEN "Error"
                     ELSE "ok"]
     ELSE calls[c]]

\* stop()
Stop ==
  /\ Idle
  /\ stopped' = TRUE
  /\ state' = [state EXCEPT !.connectionState = Closed]
  /\ IF abortController # 0 /\ abortController \notin aborted
     THEN /\ aborted' = aborted \cup {abortController}
          /\ calls' = abortListeners(abortController)
     ELSE UNCHANGED <<aborted, calls>>
  /\ pongTimeoutTimer' = disconnect.pongTimeoutTimer
  /\ timers' = disconnect.timers
  /\ socks' = disconnect.socks
  /\ ws' = disconnect.ws
  /\ UNCHANGED <<reconnectConfig, ackMode, handler, dispatcher, libVars,
                 abortController, events, acks>>


\* ---------------------------------------------------------- socket events

\* the promise each listener of socket s settles: connect()'s pending
\* promise takes onConnect, a listening waitForClose() takes onWait
settle(s, onConnect, onWait) ==
  [c \in DOMAIN calls |->
     IF Waiting(c) /\ Top(calls[c].stack).sock = s
        /\ Top(calls[c].stack).k = "connect"
     THEN [calls[c] EXCEPT !.stack = Pop(@), !.sig = onConnect]
     ELSE IF Waiting(c) /\ Top(calls[c].stack).sock = s
             /\ Top(calls[c].stack).k = "waitForClose"
     THEN [calls[c] EXCEPT !.stack = Pop(@), !.sig = onWait]
     ELSE calls[c]]

\* ws.on('open') as it would be if it left receivedGoAway and retryCount
SocketOpenKeeps(s) ==
  /\ Idle
  /\ socks[s].readyState = "connecting"
  /\ socks' = [socks EXCEPT ![s].readyState = "open", ![s].opened = TRUE]
  /\ ws' = s
  /\ state' = [state EXCEPT !.connectionState = Connected]
  /\ pongTimeoutTimer' = setupPongTimeout.pongTimeoutTimer
  /\ timers' = setupPongTimeout.timers
  /\ calls' = settle(s, "ok", "ok")
  /\ UNCHANGED <<reconnectConfig, ackMode, handler, dispatcher, libVars,
                 abortController, aborted, events, acks, stopped>>

\* ws.on('open')
SocketOpen(s) ==
  /\ Idle
  /\ socks[s].readyState = "connecting"
  /\ socks' = [socks EXCEPT ![s].readyState = "open", ![s].opened = TRUE]
  /\ ws' = s
  /\ state' = [connectionState |-> Connected, receivedGoAway |-> FALSE,
               retryCount |-> 0]
  /\ pongTimeoutTimer' = setupPongTimeout.pongTimeoutTimer
  /\ timers' = setupPongTimeout.timers
  /\ calls' = settle(s, "ok", "ok")
  /\ UNCHANGED <<reconnectConfig, ackMode, handler, dispatcher, libVars,
                 abortController, aborted, events, acks, stopped>>

\* ws.on('error') of connect() and waitForClose()'s onError; the socket's
\* 'close' event follows in a later task
SocketError(s) ==
  /\ Idle
  /\ socks[s].readyState \in {"connecting", "open"}
  /\ socks' = [socks EXCEPT ![s].readyState = "closing"]
  /\ calls' = settle(s, "ServerError", "Error")
  /\ UNCHANGED <<state, ws, reconnectConfig, ackMode, handler, dispatcher, libVars,
                 abortController, aborted, pongTimeoutTimer, timers, events, acks,
                 stopped>>

\* ws.on('unexpected-response'): the handshake was answered with an HTTP
\* status; the socket never opens
UnexpectedResponse(s, statusCode) ==
  /\ Idle
  /\ socks[s].readyState = "connecting"
  /\ socks' = [socks EXCEPT ![s].readyState = "refused",
                             ![s].status = statusCode]
  /\ calls' = settle(s, parseConnectError(statusCode), "ok")
  /\ UNCHANGED <<state, ws, reconnectConfig, ackMode, handler, dispatcher, libVars,
                 abortController, aborted, pongTimeoutTimer, timers, events, acks,
                 stopped>>

\* the connectTimeout timer of connect()
ConnectTimeout(s) ==
  /\ Idle
  /\ socks[s].readyState = "connecting"
  /\ socks' = terminate(socks, s)
  /\ calls' = settle(s, "ServerError", "ok")
  /\ UNCHANGED <<state, ws, reconnectConfig, ackMode, handler, dispatcher, libVars,
                 abortController, aborted, pongTimeoutTimer, timers, events, acks,
                 stopped>>

\* waitForClose()'s onClose test as it would be if it left autoReconnect
\* unread
onCloseReconnectsAlways == state.connectionState # Closed

\* waitForClose()'s onClose test
onCloseReconnects ==
  reconnectConfig.autoReconnect /\ state.connectionState # Closed

\* ws.on('close') of connect(), then waitForClose()'s onClose: it calls
\* reconnect(), which runs to its first await, or resolves
SocketClose(s) ==
  /\ Idle
  /\ socks[s].readyState \in {"open", "closing"}
  /\ socks' = [socks EXCEPT ![s].readyState = "closed"]
  /\ pongTimeoutTimer' = clearPongTimeout.pongTimeoutTimer
  /\ timers' = clearPongTimeout.timers
  /\ LET heard == {c \in DOMAIN calls :
                     /\ Waiting(c)
                     /\ Top(calls[c].stack).k = "waitForClose"
                     /\ Top(calls[c].stack).sock = s}
     IN IF heard # {} /\ onCloseReconnects
        THEN /\ state' = [state EXCEPT !.connectionState = Reconnecting,
                                       !.retryCount = 1]
             /\ calls' = [c \in DOMAIN calls |->
                            IF c \in heard
                            THEN reconnectLoop(calls[c],
                                   Append(calls[c].stack, ReconnectFrame("")),
                                   1)
                            ELSE calls[c]]
        ELSE /\ state' = state
             /\ calls' = settle(s, "ok", "ok")
  /\ UNCHANGED <<ws, reconnectConfig, ackMode, handler, dispatcher, libVars,
                 abortController, aborted, events, acks, stopped>>

\* ws.pong() as it would be if called without the ping's payload
pongEmpty(data) == [opcode |-> "pong", data |-> <<>>]

\* ws.pong(data): the control frame written
pong(data) == [opcode |-> "pong", data |-> data]

\* ws.on('ping') for a ping with payload data: resetPongTimeout() and the
\* pong reply; a socket's log keeps its first maxPings pings
onPing(s, data, maxPings) ==
  /\ Idle
  /\ socks[s].readyState = "open"
  /\ pongTimeoutTimer' = setupPongTimeout.pongTimeoutTimer
  /\ timers' = setupPongTimeout.timers
  /\ socks' = IF Len(socks[s].pings) < maxPings
              THEN [socks EXCEPT ![s].pings = Append(@, data),
                                 ![s].sent = Append(@, pong(data))]
              ELSE socks
  /\ UNCHANGED <<state, ws, reconnectConfig, ackMode, handler, dispatcher, libVars,
                 abortController, aborted, calls, events, acks, stopped>>

\* the server's ping, with no payload and no log kept
Ping(s) == onPing(s, <<>>, 0)

\* setupPongTimeout()'s timer callback as it would be if it only logged
PongTimeoutLogs ==
  /\ Idle
  /\ Armed
  /\ pongTimeoutTimer' = clearPongTimeout.pongTimeoutTimer
  /\ timers' = clearPongTimeout.timers
  /\ socks' = IF ws = 0 THEN socks ELSE [socks EXCEPT ![ws].deadline = TRUE]
  /\ UNCHANGED <<state, ws, reconnectConfig, ackMode, handler, dispatcher, libVars,
                 abortController, aborted, calls, events, acks, stopped>>

\* the pong-deadline timer of setupPongTimeout() fires: disconnect()
PongTimeout ==
  /\ Idle
  /\ \E t \in timers : timers' = disconnect.timers \ {t}
  /\ pongTimeoutTimer' = disconnect.pongTimeoutTimer
  /\ socks' = IF ws = 0 THEN disconnect.socks
              ELSE [disconnect.socks EXCEPT ![ws].deadline = TRUE]
  /\ ws' = disconnect.ws
  /\ state' = [state EXCEPT !.connectionState = disconnect.connectionState]
  /\ UNCHANGED <<reconnectConfig, ackMode, handler, dispatcher, libVars,
                 abortController, aborted, calls, events, acks, stopped>>

\* the timer of delay() fires: the backoff wait of reconnect() is over
DelayElapsed(c, maxSockets) ==
  /\ Idle
  /\ Waiting(c)
  /\ Top(calls[c].stack).k = "delay"
  /\ Len(socks) < maxSockets
  /\ calls' = [calls EXCEPT ![c].stack = Pop(@), ![c].sig = "ok"]
  /\ UNCHANGED <<state, ws, reconnectConfig, ackMode, handler, dispatcher, libVars,
                 abortController, aborted, pongTimeoutTimer, timers, socks, events,
                 acks, stopped>>

\* ------------------------------------------- continuations of start()

\* start(): connect() resolved, waitForClose() is called
StartWaitForClose(c) ==
  /\ Runnable(c)
  /\ Top(calls[c].stack).k = "start"
  /\ Top(calls[c].stack).at = "connect"
  /\ calls[c].sig = "ok"
  /\ calls' = [calls EXCEPT
                 ![c].stack = waitForClose(calls[c].stack).stack,
                 ![c].sig = waitForClose(calls[c].stack).sig]
  /\ UNCHANGED <<state, ws, reconnectConfig, ackMode, handler, dispatcher, libVars,
                 abortController, aborted, pongTimeoutTimer, timers, socks, events,
                 acks, stopped>>

\* start() returns after waitForClose(), or settles as the reconnect() of
\* its catch block did
StartReturn(c) ==
  /\ Runnable(c)
  /\ Top(calls[c].stack).k = "start"
  /\ \/ Top(calls[c].stack).at = "waitForClose" /\ calls[c].sig = "ok"
     \/ Top(calls[c].stack).at = "reconnect"
  /\ calls' = [calls EXCEPT ![c].stack = <<>>]
  /\ UNCHANGED <<state, ws, reconnectConfig, ackMode, handler, dispatcher, libVars,
                 abortController, aborted, pongTimeoutTimer, timers, socks, events,
                 acks, stopped>>

\* start()'s catch block: rethrow a ClientError; else disconnect() and
\* either reconnect() or rethrow
StartCatch(c) ==
  /\ Runnable(c)
  /\ Top(calls[c].stack).k = "start"
  /\ Top(calls[c].stack).at \in {"connect", "waitForClose"}
  /\ calls[c].sig \in ErrorKinds
  /\ IF calls[c].sig = "ClientError"
     THEN /\ calls' = [calls EXCEPT ![c].stack = <<>>]
          /\ UNCHANGED <<state, ws, socks, pongTimeoutTimer, timers>>
     ELSE /\ pongTimeoutTimer' = disconnect.pongTimeoutTimer
          /\ timers' = disconnect.timers
          /\ socks' = disconnect.socks
          /\ ws' = disconnect.ws
          /\ IF reconnectConfig.autoReconnect
             THEN /\ state' = [state EXCEPT !.connectionState = Reconnecting,
                                            !.retryCount = 1]
                  /\ calls' = [calls EXCEPT ![c] =
                       reconnectLoop(calls[c],
                         <<StartFrame("reconnect"), ReconnectFrame("")>>, 1)]
             ELSE /\ state' = [state EXCEPT !.connectionState =
                                              disconnect.connectionState]
                  /\ calls' = [calls EXCEPT ![c].stack = <<>>]
  /\ UNCHANGED <<reconnectConfig, ackMode, handler, dispatcher, libVars,
                 abortController, aborted, events, acks, stopped>>

\* --------------------------------------- continuations of reconnect()

\* reconnect(): the delay is over, connect() is called
ReconnectConnect(c) ==
  /\ Runnable(c)
  /\ Top(calls[c].stack).k = "reconnect"
  /\ Top(calls[c].stack).at = "delay"
  /\ calls[c].sig = "ok"
  /\ state' = [state EXCEPT !.connectionState = Connecting]
  /\ socks' = Append(socks, NewSocket(c, "reconnect"))
  /\ calls' = [calls EXCEPT
                 ![c].stack = Append(SetAt(@, "connect"),
                                     ConnectFrame(Len(socks) + 1)),
                 ![c].sig = "wait"]
  /\ UNCHANGED <<ws, reconnectConfig, ackMode, handler, dispatcher, libVars,
                 abortController, aborted, pongTimeoutTimer, timers, events, acks,
                 stopped>>

\* reconnect(): the delay was aborted, ClientClosedError is thrown
ReconnectAborted(c) ==
  /\ Runnable(c)
  /\ Top(calls[c].stack).k = "reconnect"
  /\ Top(calls[c].stack).at = "delay"
  /\ calls[c].sig \in ErrorKinds
  /\ calls' = [calls EXCEPT ![c].stack = Pop(@),
                            ![c].sig = "ClientClosedError"]
  /\ UNCHANGED <<state, ws, reconnectConfig, ackMode, handler, dispatcher, libVars,
                 abortController, aborted, pongTimeoutTimer, timers, socks, events,
                 acks, stopped>>

\* reconnect(): connect() resolved, waitForClose() is called
ReconnectWaitForClose(c) ==
  /\ Runnable(c)
  /\ Top(calls[c].stack).k = "reconnect"
  /\ Top(calls[c].stack).at = "connect"
  /\ calls[c].sig = "ok"
  /\ calls' = [calls EXCEPT
                 ![c].stack = waitForClose(calls[c].stack).stack,
                 ![c].sig = waitForClose(calls[c].stack).sig]
  /\ UNCHANGED <<state, ws, reconnectConfig, ackMode, handler, dispatcher, libVars,
                 abortController, aborted, pongTimeoutTimer, timers, socks, events,
                 acks, stopped>>

\* reconnect() returns after waitForClose()
ReconnectReturn(c) ==
  /\ Runnable(c)
  /\ Top(calls[c].stack).k = "reconnect"
  /\ Top(calls[c].stack).at = "waitForClose"
  /\ calls[c].sig = "ok"
  /\ calls' = [calls EXCEPT ![c].stack = Pop(@)]
  /\ UNCHANGED <<state, ws, reconnectConfig, ackMode, handler, dispatcher, libVars,
                 abortController, aborted, pongTimeoutTimer, timers, socks, events,
                 acks, stopped>>

\* reconnect()'s catch block: rethrow a ClientError; else disconnect() and
\* go round the loop again
ReconnectCatch(c) ==
  /\ Runnable(c)
  /\ Top(calls[c].stack).k = "reconnect"
  /\ Top(calls[c].stack).at \in {"connect", "waitForClose"}
  /\ calls[c].sig \in ErrorKinds
  /\ IF calls[c].sig = "ClientError"
     THEN /\ calls' = [calls EXCEPT ![c].stack = Pop(@)]
          /\ UNCHANGED <<state, ws, socks, pongTimeoutTimer, timers>>
     ELSE /\ pongTimeoutTimer' = disconnect.pongTimeoutTimer
          /\ timers' = disconnect.timers
          /\ socks' = disconnect.socks
          /\ ws' = disconnect.ws
          /\ state' = [state EXCEPT
                         !.connectionState = disconnect.connectionState,
                         !.retryCount = @ + 1]
          /\ calls' = [calls EXCEPT ![c] =
               reconnectLoop(calls[c], calls[c].stack, state.retryCount + 1)]
  /\ UNCHANGED <<reconnectConfig, ackMode, handler, dispatcher, libVars,
                 abortController, aborted, events, acks, stopped>>

\* waitForClose(): the reconnect() its onClose called settled, and the
\* promise settles the same way (.then(resolve).catch(reject))
WaitForCloseSettle(c) ==
  /\ Runnable(c)
  /\ Top(calls[c].stack).k = "waitForClose"
  /\ calls' = [calls EXCEPT ![c].stack = Pop(@)]
  /\ UNCHANGED <<state, ws, reconnectConfig, ackMode, handler, dispatcher, libVars,
                 abortController, aborted, pongTimeoutTimer, timers, socks, events,
                 acks, stopped>>


\* ------------------------------------------------------- message pipeline

CONNECTION_REPLACED == "connection_replaced"
SERVER_SHUTDOWN     == "server_shutdown"
SuggestedReconnectMs == 5000   \* a reconnect_ms > 0 the server may suggest

\* An inbound text frame, by what the pipeline tests of it: json (it parses
\* as JSON), type, topic (topic and operation are both non-empty),
\* signature (it verifies), nonce (it is non-empty and gives a 16-byte IV),
\* cipher (encrypted_data decrypts under that IV), and a goaway's reason
\* and reconnect_ms.
Frame(json, type, topic, signature, nonce, cipher, reason, ms) ==
  [json |-> json, type |-> type, topic |-> topic, signature |-> signature,
   nonce |-> nonce, cipher |-> cipher, reason |-> reason,
   reconnect_ms |-> ms]

ValidEvent == Frame(TRUE, "event", TRUE, TRUE, TRUE, TRUE, "", 0)

Frames ==
  { ValidEvent,
    Frame(FALSE, "event", TRUE, TRUE, TRUE, TRUE, "", 0),
    Frame(TRUE, "event", FALSE, TRUE, TRUE, TRUE, "", 0),
    Frame(TRUE, "event", TRUE, FALSE, TRUE, TRUE, "", 0),
    Frame(TRUE, "event", TRUE, TRUE, FALSE, TRUE, "", 0),
    Frame(TRUE, "event", TRUE, TRUE, TRUE, FALSE, "", 0),
    Frame(TRUE, "goaway", FALSE, FALSE, FALSE, FALSE, CONNECTION_REPLACED, 0),
    Frame(TRUE, "goaway", FALSE, FALSE, FALSE, FALSE, SERVER_SHUTDOWN, 0),
    Frame(TRUE, "goaway", FALSE, FALSE, FALSE, FALSE, SERVER_SHUTDOWN,
          SuggestedReconnectMs) }

\* decrypt(): the IV is nonce.slice(0, 16); createDecipheriv rejects any
\* other IV length, and a bad ciphertext fails in final()
decrypt(f) == f.nonce /\ f.cipher

\* the same as it would be if handleEventMessage() did not verify the
\* signature
pipelineUnverified(f) ==
  IF ~f.json THEN "dropped"
  ELSE IF f.type = "goaway" THEN "goaway"
  ELSE IF ~f.topic THEN "dropped"
  ELSE IF ~decrypt(f) THEN "dropped"
  ELSE "running"

\* handleMessage() and handleEventMessage() up to the handler call: what
\* becomes of frame f
pipeline(f) ==
  IF ~f.json THEN "dropped"
  ELSE IF f.type = "goaway" THEN "goaway"
  ELSE IF ~f.topic THEN "dropped"
  ELSE IF ~f.signature THEN "dropped"
  ELSE IF ~decrypt(f) THEN "dropped"
  ELSE "running"

\* the same as it would be without the return that ends the
\* connection_replaced branch
handleGoAwayMessageFallsThrough(config, f) ==
  LET replaced == IF f.reason = CONNECTION_REPLACED
                  THEN [config EXCEPT !.autoReconnect = FALSE]
                  ELSE config
  IN  IF f.reconnect_ms > 0
      THEN [replaced EXCEPT !.baseInterval = f.reconnect_ms]
      ELSE replaced

\* handleGoAwayMessage(): the reconnect config after goaway frame f
handleGoAwayMessage(config, f) ==
  IF f.reason = CONNECTION_REPLACED
  THEN [config EXCEPT !.autoReconnect = FALSE]
  ELSE IF f.reconnect_ms > 0
  THEN [config EXCEPT !.baseInterval = f.reconnect_ms]
  ELSE config

\* ws.on('message'): handleMessage(); a frame that passes every test has
\* the user's handler called, whose promise is then awaited.  Of an event
\* record, afterStop, openAtSettle and autoReconnect are history: stop()
\* had been called and reconnectConfig.autoReconnect held when the frame
\* came; the client's socket was open when the handler settled.
HandleMessage(s, f, maxFrames) ==
  /\ Idle
  /\ socks[s].readyState = "open"
  /\ Len(events) < maxFrames
  /\ events' = Append(events,
       [sock |-> s, frame |-> f, status |-> pipeline(f), error |-> FALSE,
        message |-> <<>>, afterStop |-> stopped, openAtSettle |-> FALSE,
        autoReconnect |-> reconnectConfig.autoReconnect])
  /\ IF pipeline(f) = "goaway"
     THEN /\ state' = [state EXCEPT !.receivedGoAway = TRUE]
          /\ reconnectConfig' = handleGoAwayMessage(reconnectConfig, f)
     ELSE UNCHANGED <<state, reconnectConfig>>
  /\ UNCHANGED <<ws, ackMode, handler, dispatcher, libVars, abortController, aborted,
                 pongTimeoutTimer, timers, socks, calls, acks, stopped>>

\* the client's socket can take a frame
socketOpen == ws # 0 /\ socks[ws].readyState = "open"

\* What the handler's promise settled with: null, or an Error whose message
\* is a string, here the sequence of its characters
NoError == [thrown |-> FALSE, message |-> <<>>]
Thrown(message) == [thrown |-> TRUE, message |-> message]
\* a string of n characters, all different
Message(n) == [k \in 1..n |-> ToString(k)]
Ellipsis == <<".", ".", ".">>
MessageLengths == {0, 1, AckMsgLimit, AckMsgLimit + 1}
HandlerErrors == {NoError} \cup {Thrown(Message(n)) : n \in MessageLengths}
\* the outcomes followed where the message is not looked at
PlainErrors == {NoError, Thrown(Message(1))}

\* sendAck() as it would be if only a handler that resolved were acknowledged
sendAckOnSuccess(i, error) ==
  IF ~events[i].frame.nonce THEN acks
  ELSE IF ~socketOpen THEN acks
  ELSE IF error.thrown THEN acks
  ELSE Append(acks, [type |-> "ack", nonce |-> i, code |-> AckOk, sock |-> ws])

\* sendAck() as it would be if msg were cut to the limit with no '...' added
sendAckCut(i, error) ==
  IF ~events[i].frame.nonce THEN acks
  ELSE IF ~socketOpen THEN acks
  ELSE IF ~error.thrown
  THEN Append(acks, [type |-> "ack", nonce |-> i, code |-> AckOk, sock |-> ws])
  ELSE Append(acks, [type |-> "ack", nonce |-> i, code |-> AckError,
                     sock |-> ws,
                     msg |-> SubSeq(error.message, 1,
                               IF Len(error.message) > AckMsgLimit
                               THEN AckMsgLimit ELSE Len(error.message))])

\* sendAck(nonce, error) for event i, which came in frame f: the frames
\* written after it.  An ACK
\* is the AckMessage and the socket it was sent on; msg is set only for an
\* error.
sendAckFrame(f, i, error) ==
  IF ~f.nonce THEN acks
  ELSE IF ~socketOpen THEN acks
  ELSE IF ~error.thrown
  THEN Append(acks, [type |-> "ack", nonce |-> i, code |-> AckOk, sock |-> ws])
  ELSE Append(acks, [type |-> "ack", nonce |-> i, code |-> AckError,
                     sock |-> ws,
                     msg |-> IF Len(error.message) > AckMsgLimit
                             THEN SubSeq(error.message, 1, AckMsgLimit)
                                    \o Ellipsis
                             ELSE error.message])
sendAck(i, error) == sendAckFrame(events[i].frame, i, error)

\* handleEventMessage() as it would be if a handler's error closed the
\* connection
HandlerSettlesFatal(i, error) ==
  /\ Idle
  /\ events[i].status = "running"
  /\ events' = [events EXCEPT ![i].status = "done",
                              ![i].error = error.thrown,
                              ![i].message = error.message,
                              ![i].openAtSettle = socketOpen]
  /\ acks' = acks
  /\ IF error.thrown
     THEN /\ pongTimeoutTimer' = disconnect.pongTimeoutTimer
          /\ timers' = disconnect.timers
          /\ socks' = disconnect.socks
          /\ ws' = disconnect.ws
          /\ state' = [state EXCEPT
                         !.connectionState = disconnect.connectionState]
     ELSE UNCHANGED <<pongTimeoutTimer, timers, socks, ws, state>>
  /\ UNCHANGED <<reconnectConfig, ackMode, handler, dispatcher, libVars,
                 abortController, aborted, calls, stopped>>

\* the handler's promise for event i settles with error (null: it
\* resolved), and handleEventMessage() goes on to the ACK
handlerSettled(i, error) ==
  /\ Idle
  /\ events[i].status = "running"
  /\ events' = [events EXCEPT ![i].status = "done",
                              ![i].error = error.thrown,
                              ![i].message = error.message,
                              ![i].openAtSettle = socketOpen]
  /\ acks' = IF ackMode THEN sendAck(i, error) ELSE acks
  /\ UNCHANGED <<state, ws, reconnectConfig, ackMode, handler, dispatcher,
                 abortController, aborted, pongTimeoutTimer, timers, socks, calls,
                 stopped>>

\* the same where the handler is the user's own and no Dispatcher is involved
HandlerSettles(i, error) ==
  /\ handlerSettled(i, error)
  /\ UNCHANGED libVars

\* ------------------------------------------------------------------- Next

\* the continuations of the async functions
Microtask ==
  \/ \E c \in DOMAIN calls : StartWaitForClose(c)
  \/ \E c \in DOMAIN calls : StartReturn(c)
  \/ \E c \in DOMAIN calls : StartCatch(c)
  \/ \E c \in DOMAIN calls : ReconnectConnect(c)
  \/ \E c \in DOMAIN calls : ReconnectAborted(c)
  \/ \E c \in DOMAIN calls : ReconnectWaitForClose(c)
  \/ \E c \in DOMAIN calls : ReconnectReturn(c)
  \/ \E c \in DOMAIN calls : ReconnectCatch(c)
  \/ \E c \in DOMAIN calls : WaitForCloseSettle(c)

\* the events of the sockets
SocketTask ==
  \/ \E s \in DOMAIN socks : SocketOpen(s)
  \/ \E s \in DOMAIN socks : SocketError(s)
  \/ \E s \in DOMAIN socks, statusCode \in HandshakeStatuses :
       UnexpectedResponse(s, statusCode)
  \/ \E s \in DOMAIN socks : ConnectTimeout(s)
  \/ \E s \in DOMAIN socks : SocketClose(s)
  \/ \E s \in DOMAIN socks : Ping(s)

\* the tasks and continuations no bound guards
Lifecycle ==
  \/ Stop
  \/ SocketTask
  \/ PongTimeout
  \/ Microtask

GoAwayFrames == {f \in Frames : f.type = "goaway"}
\* <<handler, dispatcher>>: the options set a handler and no dispatcher
HandlerOnly == {<<TRUE, FALSE>>}
\* <<handler, dispatcher>>: every choice of the two options
Sinks == {<<TRUE, FALSE>>, <<FALSE, TRUE>>, <<TRUE, TRUE>>, <<FALSE, FALSE>>}

\* The connection's life.  start() is called only while no earlier start()
\* is pending.  The only frames are goaways: an event frame writes events
\* and acks alone, which no action of Lifecycle reads.
Init == InitWith(RetryLimits, {TRUE}, HandlerOnly)

Next ==
  \/ Start(MaxStarts, MaxSockets)
  \/ \E c \in DOMAIN calls : DelayElapsed(c, MaxSockets)
  \/ \E s \in DOMAIN socks, f \in GoAwayFrames : HandleMessage(s, f, MaxGoAways)
  \/ Lifecycle

Spec == Init /\ [][Next]_vars

\* A life with autoReconnect on and no retry limit, where start() may also be
\* called while an earlier one is pending; its sockets open, fail with an
\* 'error' event and close
InitReentrant ==
  InitConfig({TRUE}, {MaxRetryUnlimited}, {RECONNECT_MAX_INTERVAL}, {TRUE},
             HandlerOnly)

NextReentrant ==
  \/ Start(MaxStarts, ReentrantSockets)
  \/ StartReentrant(MaxStarts, ReentrantSockets)
  \/ \E c \in DOMAIN calls : DelayElapsed(c, ReentrantSockets)
  \/ \E s \in DOMAIN socks, f \in GoAwayFrames : HandleMessage(s, f, MaxGoAways)
  \/ Stop
  \/ \E s \in DOMAIN socks : SocketOpen(s)
  \/ \E s \in DOMAIN socks : SocketError(s)
  \/ \E s \in DOMAIN socks : SocketClose(s)
  \/ Microtask

SpecReentrant == InitReentrant /\ [][NextReentrant]_vars

\* The message pipeline: every kind of frame, over a shorter life
InitPipeline ==
  InitWith({MaxRetryUnlimited}, BOOLEAN, HandlerOnly)

NextPipeline ==
  \/ Start(PipelineStarts, PipelineSockets)
  \/ \E c \in DOMAIN calls : DelayElapsed(c, PipelineSockets)
  \/ \E s \in DOMAIN socks, f \in Frames : HandleMessage(s, f, MaxFrames)
  \/ \E i \in DOMAIN events, e \in PlainErrors : HandlerSettles(i, e)
  \/ Lifecycle

SpecPipeline == InitPipeline /\ [][NextPipeline]_vars

\* The ACKs of valid events, for every length of error message
NextAck ==
  \/ Start(PipelineStarts, PipelineSockets)
  \/ \E c \in DOMAIN calls : DelayElapsed(c, PipelineSockets)
  \/ \E s \in DOMAIN socks : HandleMessage(s, ValidEvent, MaxFrames)
  \/ \E i \in DOMAIN events, e \in HandlerErrors : HandlerSettles(i, e)
  \/ Lifecycle

SpecAck == InitPipeline /\ [][NextAck]_vars

\* The goaways of a connection and the backoff that follows, for a
\* reconnectMaxInterval above and below the delay the server suggests
ShortMaxInterval == 2000
InitGoAway ==
  InitConfig(BOOLEAN, {MaxRetryUnlimited},
             {RECONNECT_MAX_INTERVAL, ShortMaxInterval}, {TRUE}, HandlerOnly)

NextGoAway ==
  \/ Start(PipelineStarts, PipelineSockets)
  \/ \E c \in DOMAIN calls : DelayElapsed(c, PipelineSockets)
  \/ \E s \in DOMAIN socks, f \in GoAwayFrames : HandleMessage(s, f, MaxFrames)
  \/ Lifecycle

SpecGoAway == InitGoAway /\ [][NextGoAway]_vars

\* The goaways of a connection among its events: a connection_replaced
\* goaway that also carries a reconnect_ms, with events handled and
\* acknowledged before and after it
ReplacedSuggesting ==
  Frame(TRUE, "goaway", FALSE, FALSE, FALSE, FALSE, CONNECTION_REPLACED,
        SuggestedReconnectMs)

ConfigFrames == GoAwayFrames \cup {ReplacedSuggesting, ValidEvent}

NextConfig ==
  \/ Start(PipelineStarts, PipelineSockets)
  \/ \E c \in DOMAIN calls : DelayElapsed(c, PipelineSockets)
  \/ \E s \in DOMAIN socks, f \in ConfigFrames : HandleMessage(s, f, MaxFrames)
  \/ \E i \in DOMAIN events, e \in PlainErrors : HandlerSettles(i, e)
  \/ Lifecycle

SpecConfig == InitGoAway /\ [][NextConfig]_vars

\* The pings of a connection, with and without payload, over the life of
\* one start()
MaxPings == 2
Payloads == {<<>>, <<112>>, <<112, 49>>}

InitPing == InitWith({MaxRetryUnlimited}, {TRUE}, HandlerOnly)

NextPing ==
  \/ Start(PipelineStarts, PipelineSockets)
  \/ \E c \in DOMAIN calls : DelayElapsed(c, PipelineSockets)
  \/ \E s \in DOMAIN socks, data \in Payloads : onPing(s, data, MaxPings)
  \/ \E s \in DOMAIN socks : SocketOpen(s)
  \/ \E s \in DOMAIN socks : SocketError(s)
  \/ \E s \in DOMAIN socks : SocketClose(s)
  \/ Stop
  \/ PongTimeout
  \/ Microtask

SpecPing == InitPing /\ [][NextPing]_vars

\* The same life for every choice of handler and dispatcher
InitSinks == InitWith({MaxRetryUnlimited}, {TRUE}, Sinks)

NextSinks ==
  \/ Start(PipelineStarts, PipelineSockets)
  \/ \E c \in DOMAIN calls : DelayElapsed(c, PipelineSockets)
  \/ \E s \in DOMAIN socks : HandleMessage(s, ValidEvent, MaxFrames)
  \/ \E i \in DOMAIN events, e \in PlainErrors : HandlerSettles(i, e)
  \/ Lifecycle

SpecSinks == InitSinks /\ [][NextSinks]_vars


\* One start() call, and fairness for what the event loop guarantees: queued
\* continuations run, the timers of delay() and connect() fire, a destroyed
\* socket emits 'close'.  Nothing makes the server answer, close or stop
\* pinging, and each ping pushes the pong deadline back.
FairStarts == 1

NextFair ==
  \/ Start(FairStarts, MaxSockets)
  \/ \E c \in DOMAIN calls : DelayElapsed(c, MaxSockets)
  \/ \E s \in DOMAIN socks, f \in GoAwayFrames : HandleMessage(s, f, MaxGoAways)
  \/ Lifecycle

DestroyedSocketCloses ==
  \E s \in DOMAIN socks : socks[s].readyState = "closing" /\ SocketClose(s)

FairSpec ==
  /\ Init
  /\ [][NextFair]_vars
  /\ WF_vars(Microtask)
  /\ WF_vars(\E c \in DOMAIN calls : DelayElapsed(c, MaxSockets))
  /\ WF_vars(\E s \in DOMAIN socks : ConnectTimeout(s))
  /\ WF_vars(DestroyedSocketCloses)

\* ------------------------------------------------ the exported functions
\* A call of an exported function with arguments drawn from the sets below:
\* input is the call, output what it returned.  The Client is not started.
\* The policy functions are called as reconnect() calls them: for any config
\* and retry count first, then for the same config and the next retry count.
InitLibrary ==
  InitConfig({TRUE}, {MaxRetryUnlimited}, {RECONNECT_MAX_INTERVAL}, {TRUE},
             HandlerOnly)

clientVars == <<state, ws, reconnectConfig, ackMode, handler, dispatcher,
                abortController, aborted, pongTimeoutTimer, timers, socks, calls,
                events, acks, stopped>>
dispatcherVars == <<handlers, fallback, registrations, invocations, promises>>

\* the retry counts and the ReconnectConfigs tried
MaxRetryCount == 8
RetryCounts == 0 .. MaxRetryCount
ReconnectConfigs ==
  [autoReconnect : BOOLEAN,
   baseInterval : {RECONNECT_BASE_INTERVAL, 1003, 10000},
   maxInterval : {30000, RECONNECT_MAX_INTERVAL},
   multiplier : {RECONNECT_MULTIPLIER, 3},
   maxRetry : {MaxRetryUnlimited, 0, 3},
   jitter : {0, 20, JitterUnit}]
ConfigsNow == IF input = <<>> THEN ReconnectConfigs ELSE {input.config}
RetryCountsNow ==
  IF input = <<>> THEN RetryCounts
  ELSE {input.retryCount + 1} \cap RetryCounts

\* calculateBackoff(config, retryCount), Math.random() returning
\* random / Draws
CalculateBackoff(config, retryCount, random) ==
  /\ retryCount >= 1
  /\ input' = [fn |-> "calculateBackoff", config |-> config,
               retryCount |-> retryCount, random |-> random]
  /\ output' = [value |-> calculateBackoffRandom(config, retryCount, random)]
  /\ UNCHANGED <<clientVars, dispatcherVars>>

\* shouldReconnect(config, retryCount)
ShouldReconnect(config, retryCount) ==
  /\ input' = [fn |-> "shouldReconnect", config |-> config,
               retryCount |-> retryCount, random |-> 0]
  /\ output' = [value |-> shouldReconnect(config, retryCount)]
  /\ UNCHANGED <<clientVars, dispatcherVars>>

NextPolicy ==
  \/ \E config \in ConfigsNow, retryCount \in RetryCountsNow,
        random \in 0 .. Draws - 1 :
       CalculateBackoff(config, retryCount, random)
  \/ \E config \in ConfigsNow, retryCount \in RetryCountsNow :
       ShouldReconnect(config, retryCount)

SpecPolicy == InitLibrary /\ [][NextPolicy]_vars

\* verifySignature() (src/unnamed/part_005).  A string that is compared
\* byte by byte is its length in bytes and its content; the digest of
\* HMAC-SHA256 is taken to be free of collisions, so its content is the
\* message and the secret it was computed from.
DigestLength == 43   \* the base64url text of 32 bytes, unpadded
hmacSha256(message, secret) ==
  [defined |-> TRUE, len |-> DigestLength, bytes |-> <<message, secret>>]
Text(len, bytes) == [defined |-> TRUE, len |-> len, bytes |-> bytes]
Undefined == [defined |-> FALSE, len |-> 0, bytes |-> <<"", "">>]

\* the signed text: accessKey:topic:nonce:time:encryptedData
content(params) ==
  params.accessKey \o ":" \o params.topic \o ":" \o params.nonce \o ":"
    \o ToString(params.time) \o ":" \o params.encryptedData

\* crypto.timingSafeEqual(Buffer.from(a), Buffer.from(b)): Buffer.from
\* throws on a value that is no string, timingSafeEqual on two lengths
timingSafeEqual(a, b) ==
  IF ~a.defined \/ ~b.defined THEN [threw |-> TRUE, value |-> FALSE]
  ELSE IF a.len # b.len THEN [threw |-> TRUE, value |-> FALSE]
  ELSE [threw |-> FALSE, value |-> a.bytes = b.bytes]

\* verifySignature() as it would be without its try/catch
verifySignatureUnguarded(params) ==
  timingSafeEqual(hmacSha256(content(params), params.secretKey),
                  params.signature)

\* verifySignature(): what it returns, and whether it threw
verifySignature(params) ==
  LET expectedSignature == hmacSha256(content(params), params.secretKey)
      r == timingSafeEqual(expectedSignature, params.signature)
  IN IF r.threw THEN [threw |-> FALSE, value |-> FALSE] ELSE r

\* the messages verified: everything but the signature
SignedFields ==
  [accessKey : {"test_app_id", "other_app"},
   secretKey : {"test_app_secret", "other_secret"},
   topic : {"kso.app_chat.message", "t:n"},
   nonce : {"test_nonce_12345", "n"},
   time : {1704067200, 1},
   encryptedData : {"encrypted_data_base64", "tampered_data"}]
\* the signatures supplied: the right one of some message, a text of the
\* same length, texts of other lengths, and none
Signatures ==
  {hmacSha256(content(m), m.secretKey) : m \in SignedFields}
    \cup {Text(DigestLength, <<"forged", "">>),
          Text(DigestLength + 1, <<"long", "">>), Text(0, <<"", "">>),
          Undefined}
WithSignature(m, s) ==
  [accessKey |-> m.accessKey, secretKey |-> m.secretKey, topic |-> m.topic,
   nonce |-> m.nonce, time |-> m.time, encryptedData |-> m.encryptedData,
   signature |-> s]
Fields(params) ==
  [accessKey |-> params.accessKey, secretKey |-> params.secretKey,
   topic |-> params.topic, nonce |-> params.nonce, time |-> params.time,
   encryptedData |-> params.encryptedData]
FieldNames == {"accessKey", "secretKey", "topic", "nonce", "time",
               "encryptedData"}
\* m and n differ in exactly one field
OneFieldChanged(m, n) ==
  Cardinality({f \in FieldNames : m[f] # n[f]}) = 1

\* verifySignature(params), for any message and signature
VerifySignature(m, s) ==
  /\ input = <<>>
  /\ input' = [fn |-> "verifySignature", params |-> WithSignature(m, s),
               repeated |-> FALSE]
  /\ output' = verifySignature(WithSignature(m, s))
  /\ UNCHANGED <<clientVars, dispatcherVars>>

\* verifySignature() again with the same signature and one field of the
\* message changed
VerifyTampered(m) ==
  /\ input # <<>>
  /\ OneFieldChanged(Fields(input.params), m)
  /\ input' = [fn |-> "verifySignature",
               params |-> WithSignature(m, input.params.signature),
               repeated |-> TRUE]
  /\ output' = verifySignature(WithSignature(m, input.params.signature))
  /\ UNCHANGED <<clientVars, dispatcherVars>>

NextSignature ==
  \/ \E m \in SignedFields, s \in Signatures : VerifySignature(m, s)
  \/ \E m \in SignedFields : VerifyTampered(m)

SpecSignature == InitLibrary /\ [][NextSignature]_vars

\* decrypt() and encryptForTest() (src/src/event/model/event-codes.ts).  A
\* string is the sequence of its UTF-16 code units, here characters of the
\* basic plane; a Buffer is the sequence of its bytes.
BlockSize == 16      \* pkcs7Pad(data, 16), the block of AES-CBC
IvLength == 16       \* nonce.slice(0, 16); the IV aes-256-cbc takes
ReplacementChar == 65533   \* U+FFFD, written for what UTF-8 cannot encode

\* Buffer.from(s, 'utf-8'): an unpaired surrogate is written as U+FFFD
utf8Char(c) ==
  LET u == IF c >= 55296 /\ c <= 57343 THEN ReplacementChar ELSE c
  IN IF u < 128 THEN <<u>>
     ELSE IF u < 2048 THEN <<192 + (u \div 64), 128 + (u % 64)>>
     ELSE <<224 + (u \div 4096), 128 + ((u \div 64) % 64), 128 + (u % 64)>>
RECURSIVE utf8(_)
utf8(s) == IF s = <<>> THEN <<>> ELSE utf8Char(Head(s)) \o utf8(Tail(s))

\* buf.toString('utf-8'): a byte that starts no character reads as U+FFFD
RECURSIVE toStringUtf8(_)
toStringUtf8(b) ==
  IF b = <<>> THEN <<>>
  ELSE IF b[1] < 128 THEN <<b[1]>> \o toStringUtf8(Tail(b))
  ELSE IF b[1] >= 192 /\ b[1] < 224 /\ Len(b) >= 2
  THEN <<(b[1] - 192) * 64 + (b[2] - 128)>>
         \o toStringUtf8(SubSeq(b, 3, Len(b)))
  ELSE IF b[1] >= 224 /\ b[1] < 240 /\ Len(b) >= 3
  THEN <<(b[1] - 224) * 4096 + (b[2] - 128) * 64 + (b[3] - 128)>>
         \o toStringUtf8(SubSeq(b, 4, Len(b)))
  ELSE <<ReplacementChar>> \o toStringUtf8(Tail(b))

\* nonce.slice(0, 16)
slice(s, n) == SubSeq(s, 1, IF Len(s) < n THEN Len(s) ELSE n)

\* pkcs7Pad() as it would be if a whole block of data got no padding
pkcs7PadAligned(data, blockSize) ==
  LET padding == (blockSize - (Len(data) % blockSize)) % blockSize
  IN data \o [i \in 1 .. padding |-> padding]

\* pkcs7Pad()
pkcs7Pad(data, blockSize) ==
  LET padding == blockSize - (Len(data) % blockSize)
  IN data \o [i \in 1 .. padding |-> padding]

\* pkcs7Unpad()
pkcs7Unpad(data) ==
  IF Len(data) = 0 THEN data
  ELSE LET padding == data[Len(data)]
       IN IF padding > Len(data) \/ padding = 0 THEN data
          ELSE IF \E i \in (Len(data) - padding + 1) .. Len(data) :
                    data[i] # padding
          THEN data
          ELSE SubSeq(data, 1, Len(data) - padding)

\* md5(secretKey): 32 hex characters, taken to be free of collisions
md5(data) == [md5 |-> data]
\* what a call returned, or that it threw
Returned(value) == [threw |-> FALSE, value |-> value]
Threw == [threw |-> TRUE, value |-> <<>>]

\* encryptForTest(): createCipheriv throws on an IV that is not 16 bytes.
\* The ciphertext of AES-CBC is the key, the IV and the blocks it was made
\* from; its base64 text stands for it.
encryptForTest(rawData, secretKey, nonce) ==
  LET cipherKey == md5(secretKey)
      iv == utf8(slice(nonce, IvLength))
      data == pkcs7Pad(utf8(rawData), BlockSize)
  IN IF Len(iv) # IvLength THEN Threw
     ELSE Returned([key |-> cipherKey, iv |-> iv, data |-> data])

\* decrypt(params): createDecipheriv throws on an IV that is not 16 bytes
\* and final() on data that is no whole number of blocks, both rethrown as
\* DecryptError; under another key or IV the blocks come out as other bytes
decryptData(secretKey, encryptedData, nonce) ==
  LET cipherKey == md5(secretKey)
      iv == utf8(slice(nonce, IvLength))
      decrypted == IF encryptedData.key = cipherKey /\ encryptedData.iv = iv
                   THEN encryptedData.data
                   ELSE [i \in 1 .. Len(encryptedData.data) |-> 0]
  IN IF Len(iv) # IvLength THEN Threw
     ELSE IF Len(encryptedData.data) % BlockSize # 0 THEN Threw
     ELSE Returned(toStringUtf8(pkcs7Unpad(decrypted)))

\* the plaintexts: 0, 14, 15 or 16 letters followed by up to two characters
\* out of a letter, U+0001, U+0002, U+00E9, U+4F60 and the unpaired
\* surrogate U+D800
Letters(n) == [i \in 1 .. n |-> 97]
Chars == {97, 1, 2, 233, 20320, 55296}
Endings == {<<>>} \cup {<<c>> : c \in Chars}
             \cup {<<c, d>> : c \in Chars, d \in Chars}
Plaintexts ==
  {Letters(n) \o e : n \in {0, BlockSize - 2, BlockSize - 1, BlockSize},
                     e \in Endings}
SecretKeys == {<<115>>, Letters(BlockSize)}
\* the nonces, all of 16 characters or more: 16 letters, 26 letters, 15
\* letters and U+00E9, 16 letters and U+00E9
Nonces == {Letters(IvLength), Letters(IvLength + 10),
           Letters(IvLength - 1) \o <<233>>, Letters(IvLength) \o <<233>>}

\* decrypt({secretKey, encryptedData: encryptForTest(rawData, secretKey,
\* nonce), nonce})
RoundTrip(rawData, secretKey, nonce) ==
  /\ input = <<>>
  /\ input' = [fn |-> "decrypt", rawData |-> rawData,
               secretKey |-> secretKey, nonce |-> nonce]
  /\ output' = LET e == encryptForTest(rawData, secretKey, nonce)
               IN IF e.threw THEN Threw
                  ELSE decryptData(secretKey, e.value, nonce)
  /\ UNCHANGED <<clientVars, dispatcherVars>>

NextCrypto ==
  \E rawData \in Plaintexts, secretKey \in SecretKeys, nonce \in Nonces :
    RoundTrip(rawData, secretKey, nonce)

SpecCrypto == InitLibrary /\ [][NextCrypto]_vars

\* -- pkcs7Unpad() on the buffers AES-CBC gives back
MaxBlocks == 2   \* blocks in a decrypted buffer

\* the decrypted buffers: whole blocks of one byte value that end in a run
\* of another, the run's byte being 0, a padding length of one block, or
\* the length of more than a block
Run(n, b) == [i \in 1 .. n |-> b]
PadBytes ==
  {0, 1, 2, BlockSize - 1, BlockSize, BlockSize + 1, 2 * BlockSize - 1,
   2 * BlockSize, 2 * BlockSize + 1, 255}
DecryptedBuffers ==
  UNION {{Run(n * BlockSize - k, a) \o Run(k, b) :
            k \in 0 .. n * BlockSize, a \in {97, 2}, b \in PadBytes} :
         n \in 0 .. MaxBlocks}

\* decrypt() hands the buffer decipher.final() completed to pkcs7Unpad()
Pkcs7Unpad(data) ==
  /\ input = <<>>
  /\ input' = [fn |-> "pkcs7Unpad", data |-> data]
  /\ output' = Returned(pkcs7Unpad(data))
  /\ UNCHANGED <<clientVars, dispatcherVars>>

NextUnpad == \E data \in DecryptedBuffers : Pkcs7Unpad(data)

SpecUnpad == InitLibrary /\ [][NextUnpad]_vars

\* ------------------------------------------------------------- Dispatcher

\* event/model/event-codes.ts EventCodes
V7_APP_CHAT_MESSAGE_CREATE == "kso.app_chat.message.create"
V7_APP_CHAT_CREATE == "kso.app_chat.create"
V7_APP_GROUP_CHAT_DELETE == "kso.xz.app.group_chat.delete"
V7_APP_GROUP_CHAT_MEMBER_USER_CREATE ==
  "kso.xz.app.group_chat.member.user.create"
V7_APP_GROUP_CHAT_MEMBER_USER_DELETE ==
  "kso.xz.app.group_chat.member.user.delete"
V7_APP_GROUP_CHAT_MEMBER_ROBOT_CREATE ==
  "kso.xz.app.group_chat.member.robot.create"
V7_APP_GROUP_CHAT_MEMBER_ROBOT_DELETE ==
  "kso.xz.app.group_chat.member.robot.delete"

\* the typed helpers as they would be with the codes of the two robot
\* helpers exchanged
TypedHelpersSwapped ==
  { <<"onV7AppChatMessageCreate", V7_APP_CHAT_MESSAGE_CREATE>>,
    <<"onV7AppChatCreate", V7_APP_CHAT_CREATE>>,
    <<"onV7AppGroupChatDelete", V7_APP_GROUP_CHAT_DELETE>>,
    <<"onV7AppGroupChatMemberUserCreate",
      V7_APP_GROUP_CHAT_MEMBER_USER_CREATE>>,
    <<"onV7AppGroupChatMemberUserDelete",
      V7_APP_GROUP_CHAT_MEMBER_USER_DELETE>>,
    <<"onV7AppGroupChatMemberRobotCreate",
      V7_APP_GROUP_CHAT_MEMBER_ROBOT_DELETE>>,
    <<"onV7AppGroupChatMemberRobotDelete",
      V7_APP_GROUP_CHAT_MEMBER_ROBOT_CREATE>> }

\* the typed helpers, each with the code it passes to registerFunc()
TypedHelpers ==
  { <<"onV7AppChatMessageCreate", V7_APP_CHAT_MESSAGE_CREATE>>,
    <<"onV7AppChatCreate", V7_APP_CHAT_CREATE>>,
    <<"onV7AppGroupChatDelete", V7_APP_GROUP_CHAT_DELETE>>,
    <<"onV7AppGroupChatMemberUserCreate",
      V7_APP_GROUP_CHAT_MEMBER_USER_CREATE>>,
    <<"onV7AppGroupChatMemberUserDelete",
      V7_APP_GROUP_CHAT_MEMBER_USER_DELETE>>,
    <<"onV7AppGroupChatMemberRobotCreate",
      V7_APP_GROUP_CHAT_MEMBER_ROBOT_CREATE>>,
    <<"onV7AppGroupChatMemberRobotDelete",
      V7_APP_GROUP_CHAT_MEMBER_ROBOT_DELETE>> }

\* buildEventCode() as it would be with nothing between the two parts
buildEventCodeJoined(topic, operation) == topic \o operation

\* event.ts buildEventCode(): `${topic}.${operation}`
buildEventCode(topic, operation) == topic \o "." \o operation

\* event.ts createEvent()
createEvent(topic, operation, time, data) ==
  [topic |-> topic, operation |-> operation, time |-> time, data |-> data,
   eventCode |-> buildEventCode(topic, operation)]

\* event.ts createTypedEvent(): { ...event, parsedData }
createTypedEvent(event, parsedData) ==
  [topic |-> event.topic, operation |-> event.operation,
   time |-> event.time, data |-> event.data,
   eventCode |-> event.eventCode, parsedData |-> parsedData]

\* JSON.parse() on the texts an event's data takes here: an object is the
\* sequence of its <<key, value>> members; any other text is a SyntaxError
ChatData == "{\"chat_id\":\"c1\"}"
EmptyObject == "{}"
BadData == "{\"chat_id\":"
DataTexts == {ChatData, EmptyObject, BadData}
SyntaxError == Thrown(<<"S", "y", "n", "t", "a", "x">>)
JSONparse(text) ==
  IF text = ChatData
  THEN [threw |-> FALSE, value |-> << <<"chat_id", "c1">> >>]
  ELSE IF text = EmptyObject
  THEN [threw |-> FALSE, value |-> <<>>]
  ELSE [threw |-> TRUE, value |-> <<>>]

\* new FuncHandler(fn), createHandler(fn): handle(event) calls fn(event)
FuncHandler(fn) == [fn |-> fn, typed |-> FALSE]
\* the arrow function of a typed helper, in a FuncHandler: it parses
\* event.data, copies the event with parsedData and calls fn
TypedHandler(fn) == [fn |-> fn, typed |-> TRUE]

\* this, the value a registration call returns
This == "dispatcher"

\* Map.has() and Map.get() on the entries hs, oldest first
has(hs, code) == \E i \in DOMAIN hs : hs[i].code = code
get(hs, code) == hs[CHOOSE i \in DOMAIN hs : hs[i].code = code].handler
\* Map.set() as it would be if the first registration of a code were kept
setOnce(hs, code, h) ==
  IF has(hs, code) THEN hs
  ELSE Append(hs, [code |-> code, handler |-> h])
\* Map.set(): a key already there keeps its place and takes the new value
set(hs, code, h) ==
  IF has(hs, code)
  THEN [i \in DOMAIN hs |->
          IF hs[i].code = code THEN [code |-> code, handler |-> h]
          ELSE hs[i]]
  ELSE Append(hs, [code |-> code, handler |-> h])

\* Dispatcher.hasHandler(), Dispatcher.getEventCodes()
hasHandler(eventCode) == has(handlers, eventCode)
getEventCodes == [i \in DOMAIN handlers |-> handlers[i].code]

\* The promise of a handle(event) call for event number msg of the client (0:
\* the user called handle()); invoked is the handler dispatch() called, as
\* a number of invocations, or 0
Promise(event, msg, status, error, invoked) ==
  [event |-> event, msg |-> msg, status |-> status, error |-> error,
   invoked |-> invoked]

\* A call of the user's function fn by handle() call p, with what it was
\* passed; viaFallback: it was this.fallback that was called; outcome: what
\* it threw or its promise was rejected with, once settled
Invocation(p, fn, event, viaFallback) ==
  [promise |-> p, fn |-> fn, event |-> event, viaFallback |-> viaFallback,
   settled |-> FALSE, outcome |-> NoError]

\* dispatch() as it would be if an event with a handler went to the
\* fallback too: the handler picked
pickedFallbackFirst(event) ==
  IF fallback # NoHandler THEN fallback
  ELSE IF hasHandler(event.eventCode) THEN get(handlers, event.eventCode)
  ELSE NoHandler

\* the handler dispatch() picks for event: the one registered for its code,
\* else the fallback, else none
picked(event) ==
  IF hasHandler(event.eventCode) THEN get(handlers, event.eventCode)
  ELSE fallback

\* handle(event) and dispatch(event) up to the first await that waits: the
\* promises and invocations after the call.  With no handler and no
\* fallback the promise resolves; a typed helper whose JSON.parse throws
\* rejects it; else the user's function is called and the promise pends.
dispatch(event, msg) ==
  LET h == picked(event)
      p == Len(promises) + 1
      parsed == JSONparse(event.data)
  IN  IF h = NoHandler
      THEN [promises |-> Append(promises,
                           Promise(event, msg, "resolved", NoError, 0)),
            invocations |-> invocations]
      ELSE IF h.typed /\ parsed.threw
      THEN [promises |-> Append(promises,
                           Promise(event, msg, "rejected", SyntaxError, 0)),
            invocations |-> invocations]
      ELSE [promises |-> Append(promises,
                           Promise(event, msg, "pending", NoError,
                                   Len(invocations) + 1)),
            invocations |-> Append(invocations,
               Invocation(p, h.fn,
                          IF h.typed
                          THEN createTypedEvent(event, parsed.value)
                          ELSE event,
                          ~hasHandler(event.eventCode)))]

\* settleWith() as it would be if dispatch() caught what its handler threw
settleCaught(p, error) ==
  [promises |-> [promises EXCEPT ![p].status = "resolved"],
   invocations |-> [invocations EXCEPT ![promises[p].invoked].settled = TRUE,
                                       ![promises[p].invoked].outcome = error]]

\* the promise of handle() call p once the function it called settled with
\* error: settled the same way
settleWith(p, error) ==
  [promises |-> [promises EXCEPT
                   ![p].status = IF error.thrown THEN "rejected"
                                 ELSE "resolved",
                   ![p].error = error],
   invocations |-> [invocations EXCEPT ![promises[p].invoked].settled = TRUE,
                                       ![promises[p].invoked].outcome = error]]

\* -- the Dispatcher alone
MaxRegistrations == 2   \* registration calls made
MaxDispatches    == 1   \* handle() calls made

\* the user's functions
Callbacks == {"f", "g"}

\* the topics and operations of the events handled: the seven codes of the
\* typed helpers and five others
Topics ==
  {"kso.app_chat.message", "kso.app_chat", "kso.xz.app.group_chat",
   "kso.xz.app.group_chat.member.user", "kso.xz.app.group_chat.member.robot",
   "custom"}
Operations == {"create", "delete"}
EventTime == 1704067200
EventCodesHandled ==
  {buildEventCode(t, o) : t \in Topics, o \in Operations}
\* the codes register() and registerFunc() are called with
RegisteredCodes == {V7_APP_CHAT_MESSAGE_CREATE, "custom.create"}

Registration(method, code, h) ==
  [method |-> method, code |-> code, handler |-> h, returned |-> This]

\* register(eventCode, handler) and registerFunc(eventCode, fn)
Register(method, eventCode, fn) ==
  /\ Len(registrations) < MaxRegistrations
  /\ handlers' = set(handlers, eventCode, FuncHandler(fn))
  /\ registrations' = Append(registrations,
                             Registration(method, eventCode, FuncHandler(fn)))
  /\ UNCHANGED <<fallback, invocations, promises, input, output, clientVars>>

\* registerFallback(handler) and registerFallbackFunc(fn)
RegisterFallback(method, fn) ==
  /\ Len(registrations) < MaxRegistrations
  /\ fallback' = FuncHandler(fn)
  /\ registrations' = Append(registrations,
                             Registration(method, "", FuncHandler(fn)))
  /\ UNCHANGED <<handlers, invocations, promises, input, output, clientVars>>

\* a typed helper: registerFunc(its code, the wrapper of fn)
OnV7(helper, fn) ==
  /\ Len(registrations) < MaxRegistrations
  /\ handlers' = set(handlers, helper[2], TypedHandler(fn))
  /\ registrations' = Append(registrations,
                             Registration(helper[1], helper[2],
                                          TypedHandler(fn)))
  /\ UNCHANGED <<fallback, invocations, promises, input, output, clientVars>>

\* the user calls handle(event)
Handle(event) ==
  /\ Len(promises) < MaxDispatches
  /\ promises' = dispatch(event, 0).promises
  /\ invocations' = dispatch(event, 0).invocations
  /\ UNCHANGED <<handlers, fallback, registrations, input, output,
                 clientVars>>

\* the promise the user's function returned settles (at once, if it
\* returned no promise or threw), and handle()'s after it
CallbackSettles(p, error) ==
  /\ promises[p].status = "pending"
  /\ promises[p].msg = 0
  /\ promises' = settleWith(p, error).promises
  /\ invocations' = settleWith(p, error).invocations
  /\ UNCHANGED <<handlers, fallback, registrations, input, output,
                 clientVars>>

NextDispatcher ==
  \/ \E m \in {"register", "registerFunc"}, c \in RegisteredCodes,
        fn \in Callbacks : Register(m, c, fn)
  \/ \E m \in {"registerFallback", "registerFallbackFunc"},
        fn \in Callbacks : RegisterFallback(m, fn)
  \/ \E helper \in TypedHelpers, fn \in Callbacks : OnV7(helper, fn)
  \/ \E t \in Topics, o \in Operations, d \in DataTexts :
       Handle(createEvent(t, o, EventTime, d))
  \/ \E p \in DOMAIN promises, e \in PlainErrors : CallbackSettles(p, e)

SpecDispatcher == InitLibrary /\ [][NextDispatcher]_vars

\* -- handleEventMessage() up to createEvent(), for two wire messages
\* the client's appId and appSecret
AppId == "test_app_id"
AppSecret == "test_app_secret"

\* the VerifySignatureParams handleEventMessage() builds from wire message
\* msg
signatureParams(msg) ==
  [accessKey |-> AppId, secretKey |-> AppSecret, topic |-> msg.topic,
   nonce |-> msg.nonce, time |-> msg.time,
   encryptedData |-> msg.encrypted_data, signature |-> msg.signature]

\* handleEventMessage() on wire message msg, whose encrypted_data
\* decrypts: whether it reached createEvent(), and the event code the
\* dispatcher would look up
routed(msg) ==
  IF ~verifySignature(signatureParams(msg)).value
  THEN [dispatched |-> FALSE, eventCode |-> ""]
  ELSE [dispatched |-> TRUE,
        eventCode |-> createEvent(msg.topic, msg.operation, msg.time,
                                  ChatData).eventCode]

\* the wire messages: signed by the server with the client's secret, or
\* with a forged signature
WireFields ==
  [topic : {"kso.app_chat.message", "kso.app_chat"},
   operation : {"create", "delete", "message.create"},
   nonce : {"test_nonce_12345"},
   time : {EventTime},
   encrypted_data : {"encrypted_data_base64", "tampered_data"}]
WireMessage(m, signature) ==
  [topic |-> m.topic, operation |-> m.operation, nonce |-> m.nonce,
   time |-> m.time, encrypted_data |-> m.encrypted_data,
   signature |-> signature]
serverSignature(m) ==
  hmacSha256(content(signatureParams(WireMessage(m, Undefined))), AppSecret)
WireMessages ==
  {WireMessage(m, serverSignature(n)) : m, n \in WireFields}
    \cup {WireMessage(m, Text(DigestLength, <<"forged", "">>)) :
            m \in WireFields}

\* two frames received, each going through handleEventMessage()
Route(m, n) ==
  /\ input = <<>>
  /\ input' = [fn |-> "handleEventMessage", msgs |-> <<m, n>>]
  /\ output' = Returned(<<routed(m), routed(n)>>)
  /\ UNCHANGED <<clientVars, dispatcherVars>>

NextRouting == \E m, n \in WireMessages : Route(m, n)

SpecRouting == InitLibrary /\ [][NextRouting]_vars

\* -- the Client with a Dispatcher as its sink
DispatchSockets == 1   \* WebSockets created
DispatchFrames  == 2   \* event frames received

\* the EventMessage of an inbound frame whose signature verifies, by its
\* topic, operation and time and the text its encrypted_data decrypts to
EventMessage(topic, operation, time, data) ==
  [topic |-> topic, operation |-> operation, time |-> time, data |-> data]
EventMessages ==
  {EventMessage(t, o, EventTime, d) :
     t \in {"", "kso.app_chat.message", "custom"}, o \in {"", "create"},
     d \in {ChatData, BadData}}

\* the frame of message msg, as the pipeline tests it: handleMessage()
\* drops it if !topic || !operation
FrameOf(msg) ==
  Frame(TRUE, "event", msg.topic # "" /\ msg.operation # "", TRUE, TRUE, TRUE,
        "", 0)

\* ws.on('message') for an event frame: handleMessage() and
\* handleEventMessage(), which builds the Event with createEvent() and
\* awaits dispatcher.handle(event).  If handle()'s promise is settled by
\* then (no handler at all, or a typed helper's JSON.parse threw), the
\* catch block and sendAck() follow in the same task.
ReceiveEvent(s, msg, maxFrames) ==
  LET f == FrameOf(msg)
      i == Len(events) + 1
      d == dispatch(createEvent(msg.topic, msg.operation, msg.time, msg.data),
                    i)
      promise == d.promises[Len(d.promises)]
      settledNow == promise.status # "pending"
  IN  IF pipeline(f) # "running" \/ ~dispatcher
      THEN HandleMessage(s, f, maxFrames)
      ELSE /\ Idle
           /\ socks[s].readyState = "open"
           /\ Len(events) < maxFrames
           /\ events' = Append(events,
                [sock |-> s, frame |-> f,
                 status |-> IF settledNow THEN "done" ELSE "running",
                 error |-> promise.error.thrown,
                 message |-> promise.error.message,
                 afterStop |-> stopped,
                 openAtSettle |-> settledNow /\ socketOpen,
                 autoReconnect |-> reconnectConfig.autoReconnect])
           /\ acks' = IF settledNow /\ ackMode
                      THEN sendAckFrame(f, i, promise.error)
                      ELSE acks
           /\ promises' = d.promises
           /\ invocations' = d.invocations
           /\ UNCHANGED <<state, ws, reconnectConfig, ackMode, handler,
                          dispatcher, abortController, aborted,
                          pongTimeoutTimer, timers, socks, calls, stopped, handlers,
                          fallback, registrations, input, output>>

\* the function dispatch() called for an event of the client settles:
\* handle()'s promise settles the same way, and handleEventMessage() goes on
\* to its catch block and the ACK
DispatchedSettles(p, error) ==
  /\ promises[p].status = "pending"
  /\ promises[p].msg # 0
  /\ handlerSettled(promises[p].msg, error)
  /\ promises' = settleWith(p, error).promises
  /\ invocations' = settleWith(p, error).invocations
  /\ UNCHANGED <<handlers, fallback, registrations, input, output>>

\* the options give a dispatcher and no handler
DispatcherOnly == {<<FALSE, TRUE>>}

\* autoReconnect is off and ackMode on: one connection, whose events are
\* acknowledged
InitDispatch ==
  InitConfig({FALSE}, {MaxRetryUnlimited}, {RECONNECT_MAX_INTERVAL}, {TRUE},
             DispatcherOnly)

\* the registrations made while the client has not been started: a typed
\* helper, a handler for another code, and a fallback
Registers ==
  \/ OnV7(<<"onV7AppChatMessageCreate", V7_APP_CHAT_MESSAGE_CREATE>>, "f")
  \/ Register("registerFunc", "custom.create", "g")
  \/ RegisterFallback("registerFallbackFunc", "g")

\* the continuations of start() where nothing reconnects
StartContinues ==
  \/ \E c \in DOMAIN calls : StartWaitForClose(c)
  \/ \E c \in DOMAIN calls : StartReturn(c)
  \/ \E c \in DOMAIN calls : StartCatch(c)

NextDispatch ==
  \/ calls = <<>> /\ Registers
  \/ Start(PipelineStarts, DispatchSockets)
  \/ \E s \in DOMAIN socks, msg \in EventMessages :
       ReceiveEvent(s, msg, DispatchFrames)
  \/ \E p \in DOMAIN promises, e \in PlainErrors : DispatchedSettles(p, e)
  \/ Stop
  \/ SocketTask
  \/ PongTimeout
  \/ StartContinues

SpecDispatch == InitDispatch /\ [][NextDispatch]_vars

\* ================================================================= claims

Dispatched(i) == events[i].status \in {"running", "done"}
AckCount(i) == Cardinality({k \in DOMAIN acks : acks[k].nonce = i})

\* C1: the ACKs written carry the events' nonces in the order in which the
\* event frames were received (events are numbered as they arrive).
AckOrder ==
  \A j, k \in DOMAIN acks : j < k => acks[j].nonce < acks[k].nonce

\* C2: at no time are two handler invocations in progress.
HandlersSerialized ==
  Cardinality({i \in DOMAIN events : events[i].status = "running"}) <= 1

\* C3: once connectionState is Closed it never takes another value.
ClosedIsTerminal ==
  [][state.connectionState = Closed => state'.connectionState = Closed]_vars

\* C4: every start() called after stop() rejects with ClientClosedError and
\* opens no socket.
StartAfterStopRejects ==
  \A c \in DOMAIN calls :
    calls[c].afterStop =>
      /\ Settled(c)
      /\ calls[c].sig = "ClientClosedError"
      /\ \A s \in DOMAIN socks : socks[s].by # c

\* C5: after stop() the pending start() eventually settles and the client
\* holds no open socket.
StopSettles ==
  stopped ~> ((\A c \in DOMAIN calls : Settled(c)) /\ ~socketOpen)

\* C6: once stop() has been called no inbound frame has a handler invoked.
NoDispatchAfterStop ==
  \A i \in DOMAIN events : Dispatched(i) => ~events[i].afterStop

\* C7: at most one WebSocket of the client is open or being opened.
Live(s) == socks[s].readyState \in {"connecting", "open"}
OneSocket == Cardinality({s \in DOMAIN socks : Live(s)}) <= 1

\* C8: with reconnectMaxRetry = N >= 0 a start() makes at most N failed
\* connection attempts in a row after its connection was lost, and makes no
\* attempt at all once ReconnectExceededError has been thrown.
LastOpened(c) ==
  LET S == {s \in DOMAIN socks : socks[s].by = c /\ socks[s].opened}
  IN IF S = {} THEN 0 ELSE CHOOSE s \in S : \A u \in S : u <= s
FailedSince(c) ==
  Cardinality({s \in DOMAIN socks :
                 /\ socks[s].by = c
                 /\ s > LastOpened(c)
                 /\ ~socks[s].opened
                 /\ socks[s].readyState # "connecting"})
RetryBound ==
  reconnectConfig.maxRetry >= 0 =>
    /\ \A c \in DOMAIN calls :
         LastOpened(c) > 0 => FailedSince(c) <= reconnectConfig.maxRetry
    /\ \A s \in DOMAIN socks : ~socks[s].afterExceeded

\* C9: after a connection_replaced goaway no connection is opened by
\* reconnect(), and once the socket that received it has closed and the
\* queued continuations have run, the start() that owned it has settled.
Replaced(i) ==
  events[i].status = "goaway" /\ events[i].frame.reason = CONNECTION_REPLACED
GoAwayReplacedEndsReconnect ==
  /\ \A s \in DOMAIN socks :
       socks[s].via = "reconnect" => ~socks[s].afterReplaced
  /\ \A i \in DOMAIN events :
       (Replaced(i) /\ socks[events[i].sock].readyState = "closed" /\ Idle)
         => Settled(socks[events[i].sock].by)

\* C10 as claimed: with ACK mode on, every dispatched event has no ACK while
\* its handler runs and exactly one once it has settled.
AckExactlyOnce ==
  ackMode =>
    \A i \in DOMAIN events :
      /\ events[i].status = "running" => AckCount(i) = 0
      /\ events[i].status = "done" => AckCount(i) = 1

\* C10 amended: with ACK mode on, every dispatched event has no ACK while
\* its handler runs and at most one afterwards: exactly one if the client's
\* socket was open when the handler settled (whether it resolved or
\* rejected), none if it was not.
AckAtMostOnce ==
  ackMode =>
    \A i \in DOMAIN events :
      /\ events[i].status = "running" => AckCount(i) = 0
      /\ events[i].status = "done" =>
           AckCount(i) = IF events[i].openAtSettle THEN 1 ELSE 0

\* C10 witness: a handler that rejected and was ACKed, and a handler that
\* settled after the socket had gone and was not.
AckWitness ==
  /\ ackMode
  /\ \E i \in DOMAIN events :
       events[i].status = "done" /\ events[i].error /\ AckCount(i) = 1
  /\ \E i \in DOMAIN events :
       events[i].status = "done" /\ AckCount(i) = 0

\* C11: every ACK written has type 'ack' and names an event whose handler
\* has settled; it carries code 200 and no msg iff that handler resolved,
\* and otherwise code 500 and the error's message, whole when it has at most
\* 256 characters, else its first 256 characters followed by '...'.
AckContent ==
  \A k \in DOMAIN acks :
    LET a == acks[k]
        e == events[a.nonce]
    IN /\ a.type = "ack"
       /\ e.status = "done"
       /\ (a.code = AckOk /\ "msg" \notin DOMAIN a) <=> ~e.error
       /\ e.error =>
            /\ a.code = AckError
            /\ "msg" \in DOMAIN a
            /\ a.msg = IF Len(e.message) <= AckMsgLimit THEN e.message
                       ELSE [n \in 1..(AckMsgLimit + 3) |->
                               IF n <= AckMsgLimit THEN e.message[n] ELSE "."]

\* C11 witness: an ACK carrying a whole message of 256 characters and an
\* ACK carrying a message cut to 256 characters and '...'.
AckContentWitness ==
  /\ \E k \in DOMAIN acks :
       acks[k].code = AckError /\ Len(acks[k].msg) = AckMsgLimit
  /\ \E k \in DOMAIN acks :
       acks[k].code = AckError /\ Len(acks[k].msg) = AckMsgLimit + 3

\* C12: a step in which a frame is dropped (malformed JSON, no topic or
\* operation, bad signature, failed decryption) or a handler rejects leaves
\* connectionState, retryCount, receivedGoAway, the socket, the pong timer,
\* the reconnect config and every start() call as they were; and a valid
\* event frame is dispatched whatever became of the frames before it.
Failed(i) ==
  events[i].status = "dropped" \/ (events[i].status = "done" /\ events[i].error)
FailureStep ==
  \/ /\ Len(events') = Len(events) + 1
     /\ events'[Len(events')].status = "dropped"
  \/ \E i \in DOMAIN events :
       events[i].status = "running" /\ events'[i].status = "done"
         /\ events'[i].error
FailuresKeepConnection ==
  [][ /\ FailureStep =>
          UNCHANGED <<state, ws, socks, pongTimeoutTimer, timers, reconnectConfig,
                      abortController, aborted, calls>>
      /\ (Len(events') = Len(events) + 1
            /\ events'[Len(events')].frame = ValidEvent)
          => events'[Len(events')].status = "running" ]_vars

\* C12 witness: on a socket that is still the client's open socket, in
\* state Connected, a frame failed and a later frame was dispatched.
FailuresWitness ==
  /\ socketOpen
  /\ state.connectionState = Connected
  /\ \E i, j \in DOMAIN events :
       /\ i < j
       /\ events[i].sock = ws /\ events[j].sock = ws
       /\ Failed(i)
       /\ Dispatched(j)

\* C13: a handshake answered 401 or 403 rejects connect() with a
\* ClientError, and once the queued continuations have run the start() that
\* made the attempt has rejected with it, having made no later attempt; a
\* handshake that ends with any other status, the connect timeout or an
\* 'error' event rejects connect() with a ServerError, after which start(),
\* if autoReconnect is on without a retry limit and its abort signal is the
\* client's and has not fired, waits in the backoff delay.
LastSocket(c) ==
  LET S == {s \in DOMAIN socks : socks[s].by = c}
  IN IF S = {} THEN 0 ELSE CHOOSE s \in S : \A u \in S : u <= s
Unauthorized(s) == socks[s].status \in {401, 403}
HandshakeFailed(s) ==
  ~socks[s].opened /\ socks[s].readyState \in {"refused", "closing", "closed"}
ClientErrorPropagates ==
  /\ \A s \in DOMAIN socks :
       Unauthorized(s) =>
         /\ LastSocket(socks[s].by) = s
         /\ Idle => /\ Settled(socks[s].by)
                     /\ calls[socks[s].by].sig = "ClientError"
  /\ \A c \in DOMAIN calls :
       (Runnable(c) /\ Top(calls[c].stack).at = "connect") =>
         calls[c].sig = IF Unauthorized(LastSocket(c)) THEN "ClientError"
                        ELSE IF HandshakeFailed(LastSocket(c))
                        THEN "ServerError" ELSE "ok"
  /\ \A c \in DOMAIN calls :
       ( /\ Idle
         /\ LastSocket(c) # 0
         /\ HandshakeFailed(LastSocket(c))
         /\ ~Unauthorized(LastSocket(c))
         /\ reconnectConfig.autoReconnect
         /\ reconnectConfig.maxRetry < 0
         /\ abortController = c /\ c \notin aborted )
       => Waiting(c) /\ Top(calls[c].stack).k = "delay"

\* C13 witness: a reconnect attempt, made after a handshake answered 429,
\* was answered 403 and the start() has rejected with the ClientError.
ClientErrorWitness ==
  \E s, u \in DOMAIN socks :
    /\ s < u
    /\ socks[s].by = socks[u].by
    /\ socks[s].status = 429
    /\ socks[u].status = 403
    /\ socks[u].via = "reconnect"
    /\ Settled(socks[u].by)
    /\ calls[socks[u].by].sig = "ClientError"

\* C14: a start() called before any stop() passes its checks iff exactly one
\* of handler and dispatcher is set; with neither or both it has rejected
\* with HandlerNotSetError and has made no connection attempt.
ExactlyOneSink ==
  \A c \in DOMAIN calls :
    ~calls[c].afterStop =>
      IF handler # dispatcher
      THEN ~(Settled(c) /\ calls[c].sig = "HandlerNotSetError")
      ELSE /\ Settled(c)
           /\ calls[c].sig = "HandlerNotSetError"
           /\ \A s \in DOMAIN socks : socks[s].by # c

\* C15: when the connection a start() had established is lost (its socket
\* has closed), stop() has not been called and the policy permits a retry,
\* then once the queued continuations have run the client is Reconnecting
\* and the start() waits in the backoff delay, a new attempt following
\* when the delay elapses.
PolicyPermits == shouldReconnect(reconnectConfig, 1)
ConnectionLost(c) ==
  /\ LastSocket(c) # 0
  /\ socks[LastSocket(c)].opened
  /\ socks[LastSocket(c)].readyState \in {"closing", "closed"}
ReconnectsAfterLoss ==
  \A c \in DOMAIN calls :
    (Idle /\ ~stopped /\ PolicyPermits /\ ConnectionLost(c)) =>
      /\ socks[LastSocket(c)].readyState = "closed" =>
           Waiting(c) /\ Top(calls[c].stack).k = "delay"
      /\ (Waiting(c) /\ Top(calls[c].stack).k = "delay") =>
           state.connectionState = Reconnecting

\* C16: a socket whose pong deadline has fired has been force-closed and is
\* no longer the client's socket, so the client is not Connected on it; and
\* once it has closed, if neither stop() nor a later start() has been called
\* and the policy permits a retry, the client is Reconnecting and the
\* start() waits in the backoff delay that precedes the new attempt.
PongDeadlineCloses ==
  \A s \in DOMAIN socks :
    socks[s].deadline =>
      /\ socks[s].readyState \in {"closing", "closed"}
      /\ ws # s
      /\ state.connectionState = Connected => ws # 0
      /\ ( /\ Idle /\ ~stopped /\ PolicyPermits
           /\ socks[s].readyState = "closed"
           /\ LastSocket(socks[s].by) = s
           /\ abortController = socks[s].by )
         => /\ state.connectionState = Reconnecting
            /\ Waiting(socks[s].by)
            /\ Top(calls[socks[s].by].stack).k = "delay"

\* C16 witness: the deadline fired on a socket, which has closed, and the
\* start() that owned it has made a new connection attempt.
PongDeadlineWitness ==
  \E s, u \in DOMAIN socks :
    /\ socks[s].deadline
    /\ socks[s].readyState = "closed"
    /\ u > s
    /\ socks[u].by = socks[s].by
    /\ socks[u].via = "reconnect"

\* C17: every step in which a socket opens leaves the client Connected on
\* that socket with retryCount = 0, receivedGoAway = false and the pong
\* timer armed.
ConnectResets ==
  [][ \A s \in DOMAIN socks :
        (socks[s].readyState = "connecting" /\ socks'[s].readyState = "open")
        => /\ state' = [connectionState |-> Connected,
                        receivedGoAway |-> FALSE, retryCount |-> 0]
           /\ ws' = s
           /\ pongTimeoutTimer' \in timers' ]_vars

\* C17 witness: a reconnect attempt has opened, after a goaway was received
\* and an earlier attempt of the same start() failed, and the client is
\* Connected on it with the counters reset.
ConnectResetsWitness ==
  \E s, u \in DOMAIN socks :
    /\ u < s
    /\ socks[u].by = socks[s].by
    /\ HandshakeFailed(u)
    /\ socks[s].via = "reconnect"
    /\ socks[s].readyState = "open"
    /\ ws = s
    /\ \E i \in DOMAIN events : events[i].status = "goaway"
    /\ state = [connectionState |-> Connected, receivedGoAway |-> FALSE,
                retryCount |-> 0]
    /\ Armed

\* The last goaway received on socket s that suggested a delay (0: none)
SuggestingGoAway(s) ==
  LET G == {i \in DOMAIN events :
              /\ events[i].sock = s
              /\ events[i].status = "goaway"
              /\ events[i].frame.reason # CONNECTION_REPLACED
              /\ events[i].frame.reconnect_ms > 0}
  IN IF G = {} THEN 0 ELSE CHOOSE i \in G : \A j \in G : j <= i
\* start() call c waits out the first backoff after the connection on which
\* such a goaway came
FirstWaitAfterGoAway(c) ==
  /\ Waiting(c)
  /\ Top(calls[c].stack).k = "delay"
  /\ ConnectionLost(c)
  /\ SuggestingGoAway(LastSocket(c)) # 0

\* C18: with jitter = 0 the wait before the first reconnect attempt after a
\* goaway that suggests reconnect_ms = R > 0 (reason other than
\* connection_replaced) equals R, whatever maxInterval is.
WaitIsSuggested ==
  \A c \in DOMAIN calls :
    FirstWaitAfterGoAway(c) =>
      Top(calls[c].stack).ms =
        events[SuggestingGoAway(LastSocket(c))].frame.reconnect_ms

\* C19: once a goaway has been received on a connection, no event frame
\* received later on that connection is dispatched to the handler or ACKed.
AfterGoAway(j) ==
  \E i \in DOMAIN events :
    /\ i < j
    /\ events[i].sock = events[j].sock
    /\ events[i].status = "goaway"
NoDispatchAfterGoAway ==
  \A j \in DOMAIN events :
    AfterGoAway(j) => ~Dispatched(j) /\ AckCount(j) = 0

\* C20: every stop() leaves connectionState Closed, no socket, the
\* cancellation signal aborted and no pong timer, whatever state it is called
\* in; and a stop() called in such a state changes nothing at all.
AfterStop ==
  /\ stopped
  /\ state.connectionState = Closed
  /\ ws = 0
  /\ pongTimeoutTimer = 0
  /\ timers = {}
  /\ abortController # 0 => abortController \in aborted
StopIdempotent ==
  [][Stop => (AfterStop' /\ (AfterStop => UNCHANGED vars))]_vars

\* C20 witness: a second stop() has acted on a client that a start() made
\* after the first stop() had connected again.
SecondStopWitness ==
  /\ AfterStop
  /\ \E s \in DOMAIN socks :
       socks[s].opened /\ calls[socks[s].by].afterStop

\* C25: with jitter = 0, calculateBackoff(cfg, r) for r >= 1 is
\* min(baseInterval * multiplier^(r-1), maxInterval); for base 1000,
\* multiplier 2 and max 60000 it is 1000, 2000, 4000, 8000, 16000, 32000,
\* 60000, 60000 for r = 1..8; it never exceeds maxInterval, and from one
\* retry to the next of the same config it does not decrease.
PlainBackoff(in) ==
  in # <<>> /\ in.fn = "calculateBackoff" /\ in.config.jitter = 0
DefaultSeries == <<1000, 2000, 4000, 8000, 16000, 32000, 60000, 60000>>
BackoffFormula ==
  PlainBackoff(input) =>
    LET cfg == input.config
        r == input.retryCount
        grown == cfg.baseInterval * cfg.multiplier ^ (r - 1)
    IN /\ output.value = IF grown <= cfg.maxInterval THEN grown
                         ELSE cfg.maxInterval
       /\ output.value <= cfg.maxInterval
       /\ ( /\ cfg.baseInterval = 1000
            /\ cfg.multiplier = 2
            /\ cfg.maxInterval = 60000
            /\ r <= Len(DefaultSeries) ) => output.value = DefaultSeries[r]
BackoffSeries ==
  /\ []BackoffFormula
  /\ [][( /\ PlainBackoff(input) /\ PlainBackoff(input')
          /\ input'.config = input.config
          /\ input'.retryCount = input.retryCount + 1 )
        => output'.value >= output.value]_vars

\* C25 witness: the seventh retry of the default series has been computed,
\* the first that maxInterval caps.
BackoffWitness ==
  /\ PlainBackoff(input)
  /\ input.config.baseInterval = 1000
  /\ input.config.multiplier = 2
  /\ input.config.maxInterval = 60000
  /\ input.retryCount = 7
  /\ output.value = 60000

\* the capped interval of the call in hand and its jitter range, the range
\* in units of 1 / JitterUnit ms
JitteredBackoff ==
  input # <<>> /\ input.fn = "calculateBackoff" /\ input.config.jitter > 0
CappedInterval ==
  LET grown == input.config.baseInterval
                 * input.config.multiplier ^ (input.retryCount - 1)
  IN IF grown <= input.config.maxInterval THEN grown
     ELSE input.config.maxInterval
RangeLow == CappedInterval * (JitterUnit - input.config.jitter)
RangeHigh == CappedInterval * (JitterUnit + input.config.jitter)

\* C26: with jitter = j > 0, for every retry count and every jitter draw,
\* calculateBackoff returns an integer in the closed range
\* [interval * (1 - j), interval * (1 + j)], interval being
\* min(baseInterval * multiplier^(r-1), maxInterval).
JitterInRange ==
  JitteredBackoff =>
    /\ output.value \in Int
    /\ output.value * JitterUnit >= RangeLow
    /\ output.value * JitterUnit <= RangeHigh

\* C26 amended: the integer returned is within half a millisecond of that
\* range (the drawn value lies in the range and is rounded to the nearest
\* integer).
JitterNearRange ==
  JitteredBackoff =>
    /\ output.value \in Int
    /\ 2 * output.value * JitterUnit >= 2 * RangeLow - JitterUnit
    /\ 2 * output.value * JitterUnit <= 2 * RangeHigh + JitterUnit

\* C26 witness: a draw at the low end of a range whose end is not a whole
\* number has been rounded to a value below the range.
JitterWitness ==
  /\ JitteredBackoff
  /\ input.random = 0
  /\ output.value * JitterUnit < RangeLow

\* C27: shouldReconnect(cfg, r) is false when autoReconnect is false;
\* otherwise true when maxRetry < 0; otherwise it is r < maxRetry.  With
\* maxRetry = 0 it is false for every r.
PolicyCall == input # <<>> /\ input.fn = "shouldReconnect"
PolicyTable ==
  PolicyCall =>
    /\ output.value \in BOOLEAN
    /\ ~input.config.autoReconnect => ~output.value
    /\ (input.config.autoReconnect /\ input.config.maxRetry < 0)
         => output.value
    /\ (input.config.autoReconnect /\ input.config.maxRetry >= 0)
         => (output.value <=> input.retryCount < input.config.maxRetry)
    /\ input.config.maxRetry = 0 => ~output.value

\* C27 witness: with autoReconnect on, a retry has been refused at the limit
\* (r = maxRetry = 3).
PolicyWitness ==
  /\ PolicyCall
  /\ input.config.autoReconnect
  /\ input.config.maxRetry = 3
  /\ input.retryCount = 3
  /\ ~output.value

\* C28: verifySignature returns true iff the signature supplied is the
\* HMAC-SHA256 digest of accessKey:topic:nonce:time:encryptedData under the
\* secret; after a call that returned true, a call with the same signature
\* and any one of topic, nonce, time, encryptedData, accessKey or secret
\* changed returns false; a signature of another length gives false; and
\* verifySignature never throws.
SignatureCall == input # <<>> /\ input.fn = "verifySignature"
SignedText(params) ==
  params.accessKey \o ":" \o params.topic \o ":" \o params.nonce \o ":"
    \o ToString(params.time) \o ":" \o params.encryptedData
SignatureVerdict ==
  SignatureCall =>
    /\ ~output.threw
    /\ output.value <=>
         input.params.signature =
           hmacSha256(SignedText(input.params), input.params.secretKey)
    /\ input.params.signature.len # DigestLength => ~output.value
SignatureVerifies ==
  /\ []SignatureVerdict
  /\ [][( /\ SignatureCall /\ output.value
          /\ input'.params.signature = input.params.signature
          /\ OneFieldChanged(Fields(input.params), Fields(input'.params)) )
        => ~output'.value]_vars

\* C28 witness: a call with the right signature returned true and the call
\* after it, with the nonce changed, has returned false.
SignatureWitness ==
  /\ SignatureCall
  /\ input.repeated
  /\ ~output.value
  /\ input.params.nonce = "n"
  /\ input.params.signature =
       hmacSha256(SignedText([input.params EXCEPT
                                !.nonce = "test_nonce_12345"]),
                  input.params.secretKey)

\* C29: for every plaintext p, every secret k and every nonce n of at least
\* 16 characters, decrypt(encryptForTest(p, k, n), k, n) = p.
RoundTripCall ==
  input # <<>> /\ input.fn = "decrypt" /\ Len(input.nonce) >= 16
WellFormed(s) == \A i \in DOMAIN s : s[i] < 55296 \/ s[i] > 57343
SingleBytePrefix(n) == \A i \in 1 .. 16 : n[i] < 128
InvocationsOf(p) == {j \in DOMAIN invocations : invocations[j].promise = p}

\* a step that is a handle() call: the promise it returned, the event it was
\* given, and the calls of the user's functions it made
IsHandleCall == Len(promises') = Len(promises) + 1
HandlePromise == promises'[Len(promises')]
Handled == HandlePromise.event
NewInvocations ==
  {j \in DOMAIN invocations' : j > Len(invocations)}

\* every handle() call calls the handler registered for event.eventCode and
\* nothing else if there is one (a typed helper's wrapper calls the user's
\* function unless event.data fails to parse), else the fallback and
\* nothing else if there is one, else nothing, and then its promise is
\* resolved and nothing but that promise has changed
OneHandlerOrNone ==
  IsHandleCall =>
    LET h == get(handlers, Handled.eventCode)
    IN  /\ Cardinality(NewInvocations) <= 1
        /\ \A j \in DOMAIN invocations : invocations'[j] = invocations[j]
        /\ UNCHANGED <<handlers, fallback, registrations>>
        /\ IF hasHandler(Handled.eventCode)
           THEN /\ \A j \in NewInvocations :
                     /\ invocations'[j].fn = h.fn
                     /\ ~invocations'[j].viaFallback
                /\ NewInvocations = {}
                     <=> (h.typed /\ JSONparse(Handled.data).threw)
           ELSE IF fallback # NoHandler
           THEN /\ Cardinality(NewInvocations) = 1
                /\ \A j \in NewInvocations :
                     /\ invocations'[j].fn = fallback.fn
                     /\ invocations'[j].viaFallback
           ELSE /\ NewInvocations = {}
                /\ HandlePromise.status = "resolved"
                /\ HandlePromise.error = NoError

\* a handle() call's promise pends until the function it called has
\* settled, and then settles as that function did
Awaited ==
  \A p \in DOMAIN promises :
    /\ promises[p].invoked # 0 =>
         /\ InvocationsOf(p) = {promises[p].invoked}
         /\ promises[p].status = "pending"
              <=> ~invocations[promises[p].invoked].settled
    /\ promises[p].invoked = 0 =>
         /\ InvocationsOf(p) = {}
         /\ promises[p].status # "pending"

\* C21: handle(event) calls exactly one handler or none: the one registered
\* for event.eventCode if there is one, and then never the fallback; else
\* the fallback if there is one; else nothing, and it resolves with no
\* other effect.  Its promise is settled only once the handler it called
\* has settled.
HandleOneOrNone == []Awaited /\ [][OneHandlerOrNone]_vars

\* C21 witness: with a handler registered for a code and a fallback set, an
\* event of that code was handled by that handler alone and handle()
\* resolved after it
HandleWitness ==
  \E p \in DOMAIN promises :
    /\ hasHandler(promises[p].event.eventCode)
    /\ fallback # NoHandler
    /\ fallback.fn # get(handlers, promises[p].event.eventCode).fn
    /\ promises[p].status = "resolved"
    /\ promises[p].invoked # 0
    /\ invocations[promises[p].invoked].fn
         = get(handlers, promises[p].event.eventCode).fn
    /\ Len(invocations) = 1

\* the registration calls that name a code, and the last of them for code c
FallbackMethods == {"registerFallback", "registerFallbackFunc"}
RegistrationsOf(c) ==
  {i \in DOMAIN registrations :
     /\ registrations[i].method \notin FallbackMethods
     /\ registrations[i].code = c}
LastRegistration(c) ==
  registrations[CHOOSE i \in RegistrationsOf(c) :
                  \A k \in RegistrationsOf(c) : k <= i]

\* hasHandler(c) iff a registration named c; the handler kept for c is the
\* last one registered; getEventCodes() holds the registered codes, each
\* once; every registration call returned this
RegistryMatchesCalls ==
  /\ \A c \in EventCodesHandled \cup {""} :
       /\ hasHandler(c) <=> RegistrationsOf(c) # {}
       /\ hasHandler(c) => get(handlers, c) = LastRegistration(c).handler
       /\ Cardinality({i \in DOMAIN getEventCodes : getEventCodes[i] = c})
            = IF RegistrationsOf(c) # {} THEN 1 ELSE 0
  /\ \A i \in DOMAIN getEventCodes : RegistrationsOf(getEventCodes[i]) # {}
  /\ \A i \in DOMAIN registrations : registrations[i].returned = This

\* a handle() call for a code that was registered calls the function of the
\* last registration for it
HandleCallsLatest ==
  (IsHandleCall /\ RegistrationsOf(Handled.eventCode) # {}) =>
    LET h == LastRegistration(Handled.eventCode).handler
    IN  /\ \A j \in NewInvocations : invocations'[j].fn = h.fn
        /\ NewInvocations = {} <=> (h.typed /\ JSONparse(Handled.data).threw)

\* a registerFallback() or registerFallbackFunc() call leaves hasHandler()
\* and getEventCodes() as they were
FallbackKeepsRegistry ==
  (/\ Len(registrations') = Len(registrations) + 1
   /\ registrations'[Len(registrations')].method \in FallbackMethods) =>
    UNCHANGED handlers

\* C22: after any registration calls, hasHandler(c) holds iff a register
\* call named c, handle() of an event of code c calls the handler of the
\* last registration for c, getEventCodes() returns each registered code
\* once, registering a fallback changes no hasHandler(), and every
\* registration call returns the dispatcher
RegistrationContract ==
  /\ []RegistryMatchesCalls
  /\ [][HandleCallsLatest /\ FallbackKeepsRegistry]_vars

\* C22 witness: a code was registered twice with different functions, the
\* second one alone was called for an event of that code, and
\* getEventCodes() holds that code once
RegistrationWitness ==
  /\ Len(registrations) = 2
  /\ registrations[1].code = registrations[2].code
  /\ registrations[1].handler.fn # registrations[2].handler.fn
  /\ registrations[1].method \notin FallbackMethods
  /\ registrations[2].method \notin FallbackMethods
  /\ getEventCodes = <<registrations[2].code>>
  /\ Len(invocations) = 1
  /\ invocations[1].fn = registrations[2].handler.fn
  /\ invocations[1].event.eventCode = registrations[2].code

\* the event code each typed helper is to register under
HelperNames ==
  {"onV7AppChatMessageCreate", "onV7AppChatCreate", "onV7AppGroupChatDelete",
   "onV7AppGroupChatMemberUserCreate", "onV7AppGroupChatMemberUserDelete",
   "onV7AppGroupChatMemberRobotCreate", "onV7AppGroupChatMemberRobotDelete"}
CanonicalCode(name) ==
  CASE name = "onV7AppChatMessageCreate" -> "kso.app_chat.message.create"
    [] name = "onV7AppChatCreate" -> "kso.app_chat.create"
    [] name = "onV7AppGroupChatDelete" -> "kso.xz.app.group_chat.delete"
    [] name = "onV7AppGroupChatMemberUserCreate" ->
         "kso.xz.app.group_chat.member.user.create"
    [] name = "onV7AppGroupChatMemberUserDelete" ->
         "kso.xz.app.group_chat.member.user.delete"
    [] name = "onV7AppGroupChatMemberRobotCreate" ->
         "kso.xz.app.group_chat.member.robot.create"
    [] name = "onV7AppGroupChatMemberRobotDelete" ->
         "kso.xz.app.group_chat.member.robot.delete"

\* a step that is a call of a typed helper changes the handler of the
\* helper's code and of no other code, and not the fallback
HelperRegistersCanonical ==
  (/\ Len(registrations') = Len(registrations) + 1
   /\ registrations'[Len(registrations')].method \in HelperNames) =>
    LET code == CanonicalCode(registrations'[Len(registrations')].method)
    IN  /\ has(handlers', code)
        /\ get(handlers', code) = registrations'[Len(registrations')].handler
        /\ get(handlers', code).typed
        /\ \A c \in (EventCodesHandled \cup {""}) \ {code} :
             /\ has(handlers', c) <=> has(handlers, c)
             /\ has(handlers, c) => get(handlers', c) = get(handlers, c)
        /\ Len(handlers') <= Len(handlers) + 1
        /\ UNCHANGED fallback

\* a handle() call that finds a typed helper's handler, for data that
\* parses, calls the user's callback once with the event's five fields as
\* they were and parsedData the parse of data
HelperPassesTypedEvent ==
  (/\ IsHandleCall
   /\ hasHandler(Handled.eventCode)
   /\ get(handlers, Handled.eventCode).typed
   /\ ~JSONparse(Handled.data).threw) =>
    /\ Cardinality(NewInvocations) = 1
    /\ \A j \in NewInvocations :
         /\ invocations'[j].fn = get(handlers, Handled.eventCode).fn
         /\ DOMAIN invocations'[j].event
              = {"topic", "operation", "time", "data", "eventCode",
                 "parsedData"}
         /\ invocations'[j].event.topic = Handled.topic
         /\ invocations'[j].event.operation = Handled.operation
         /\ invocations'[j].event.time = Handled.time
         /\ invocations'[j].event.data = Handled.data
         /\ invocations'[j].event.eventCode = Handled.eventCode
         /\ invocations'[j].event.parsedData = JSONparse(Handled.data).value

\* C24: each of the seven typed helpers registers under its canonical
\* literal code and no other, and on dispatch calls the user's callback
\* with an event whose topic, operation, time, data and eventCode are the
\* original's and whose parsedData is the JSON parse of data
TypedHelpersContract ==
  [][HelperRegistersCanonical /\ HelperPassesTypedEvent]_vars

\* C24 witness: onV7AppGroupChatMemberRobotDelete registered a callback,
\* which was called for an event of code
\* kso.xz.app.group_chat.member.robot.delete with the parsed chat data
TypedHelpersWitness ==
  /\ \E i \in DOMAIN registrations :
       registrations[i].method = "onV7AppGroupChatMemberRobotDelete"
  /\ \E j \in DOMAIN invocations :
       /\ invocations[j].event.eventCode
            = "kso.xz.app.group_chat.member.robot.delete"
       /\ invocations[j].event.data = ChatData
       /\ "parsedData" \in DOMAIN invocations[j].event
       /\ invocations[j].event.parsedData = << <<"chat_id", "c1">> >>

\* the ACKs written for event i
AcksOf(i) == {a \in DOMAIN acks : acks[a].nonce = i}

\* handle()'s promise settles as the function it called did, with the same
\* error
RejectionReachesCaller ==
  \A p \in DOMAIN promises :
    (promises[p].invoked # 0 /\ invocations[promises[p].invoked].settled) =>
      /\ promises[p].error = invocations[promises[p].invoked].outcome
      /\ promises[p].status
           = IF invocations[promises[p].invoked].outcome.thrown
             THEN "rejected" ELSE "resolved"

\* a handle() call that finds a typed helper's handler, for data that does
\* not parse, is rejected with the parser's error and calls nothing
ParseErrorRejects ==
  (/\ IsHandleCall
   /\ hasHandler(Handled.eventCode)
   /\ get(handlers, Handled.eventCode).typed
   /\ JSONparse(Handled.data).threw) =>
    /\ HandlePromise.status = "rejected"
    /\ HandlePromise.error = SyntaxError
    /\ NewInvocations = {}

\* the pipeline has caught the rejection of handle() for each of its
\* events: the event is done with that error, any ACK written for it
\* carries code 500 and the error's message, and there is one if the
\* client's socket was open when the promise was rejected
RejectionBecomesAck ==
  \A p \in DOMAIN promises :
    (promises[p].msg # 0 /\ promises[p].status = "rejected") =>
      LET i == promises[p].msg
      IN  /\ events[i].status = "done"
          /\ events[i].error
          /\ events[i].message = promises[p].error.message
          /\ \A a \in AcksOf(i) :
               /\ acks[a].code = AckError
               /\ acks[a].msg = promises[p].error.message
          /\ Cardinality(AcksOf(i))
               = IF ackMode /\ events[i].openAtSettle THEN 1 ELSE 0

\* a step in which a handle() promise is rejected changes nothing of the
\* connection and settles no start() call
RejectionCaught ==
  (\E p \in DOMAIN promises' :
     /\ promises'[p].status = "rejected"
     /\ p \in DOMAIN promises => promises[p].status = "pending") =>
    UNCHANGED <<state, ws, reconnectConfig, socks, calls, pongTimeoutTimer, timers,
                abortController, aborted, stopped>>

\* C23: what the handler called by Dispatcher.handle() throws or rejects
\* with, and the JSON parse error of a typed helper's wrapper, rejects
\* handle()'s promise; the client's pipeline catches it and the ACK it
\* sends for the event carries code 500
HandlerErrorsPropagate ==
  /\ [](RejectionReachesCaller /\ RejectionBecomesAck)
  /\ [][ParseErrorRejects /\ RejectionCaught]_vars

\* C23 witness: one event went to a typed helper and its data did not
\* parse, another went to a callback that rejected; both handle() calls
\* were rejected and each event was acknowledged with code 500 and the
\* error's message
HandlerErrorsWitness ==
  /\ Len(promises) = 2
  /\ promises[1].status = "rejected"
  /\ promises[1].invoked = 0
  /\ promises[1].error = SyntaxError
  /\ promises[2].status = "rejected"
  /\ promises[2].invoked # 0
  /\ Len(acks) = 2
  /\ acks[1] = [type |-> "ack", nonce |-> 1, code |-> AckError,
                sock |-> ws, msg |-> SyntaxError.message]
  /\ acks[2].nonce = 2
  /\ acks[2].code = AckError
  /\ acks[2].msg = invocations[promises[2].invoked].outcome.message

\* the topics and operations an inbound frame may carry, the empty ones
\* among them
FrameTopics == {m.topic : m \in EventMessages} \cup Topics
FrameOperations == {m.operation : m \in EventMessages} \cup Operations

\* every call of a user's function made for an event of the client was
\* passed an event with non-empty topic and operation, eventCode their
\* join with a dot, and the five fields createEvent() gave it
DeliveredEventsWellFormed ==
  \A j \in DOMAIN invocations :
    LET e == invocations[j].event
        created == promises[invocations[j].promise].event
    IN  promises[invocations[j].promise].msg # 0 =>
          /\ e.topic # ""
          /\ e.operation # ""
          /\ e.eventCode = e.topic \o "." \o e.operation
          /\ e.topic = created.topic
          /\ e.operation = created.operation
          /\ e.time = created.time
          /\ e.data = created.data
          /\ e.eventCode = created.eventCode
          /\ events[promises[invocations[j].promise].msg].frame.topic

\* C30: every Event delivered to a handler has eventCode = topic + "." +
\* operation with topic and operation both non-empty; buildEventCode(topic,
\* operation) = topic + "." + operation for all topics and operations; the
\* event's fields are the same at the handler's call as at its creation
EventCodeInvariant ==
  /\ DeliveredEventsWellFormed
  /\ \A t \in FrameTopics, o \in FrameOperations :
       /\ buildEventCode(t, o) = t \o "." \o o
       /\ createEvent(t, o, EventTime, ChatData).eventCode = t \o "." \o o

\* C30 witness: a frame with an empty topic or operation was dropped, and
\* a frame of topic kso.app_chat.message and operation create reached a
\* typed helper's callback as kso.app_chat.message.create
EventCodeWitness ==
  /\ Len(events) = 2
  /\ ~events[1].frame.topic
  /\ events[1].status = "dropped"
  /\ Len(invocations) = 1
  /\ invocations[1].event.topic = "kso.app_chat.message"
  /\ invocations[1].event.operation = "create"
  /\ invocations[1].event.eventCode = "kso.app_chat.message.create"
  /\ "parsedData" \in DOMAIN invocations[1].event
  /\ promises[1].msg = 2

\* the client was constructed with autoReconnect = false (no goaway has
\* switched it off)
AutoReconnectOff ==
  /\ ~reconnectConfig.autoReconnect
  /\ \A i \in DOMAIN events :
       ~(events[i].status = "goaway"
         /\ events[i].frame.reason = CONNECTION_REPLACED)

\* the sockets start() call c has made
SocketsOf(c) == {s \in DOMAIN socks : socks[s].by = c}

\* with autoReconnect off every socket was made by start() itself, one per
\* call at most, no call is in reconnect() or in a backoff wait, and a call
\* that has settled rejected with the error of its failed handshake or,
\* its socket having opened, resolved (or rejected with the socket's error)
OneAttemptPerStart ==
  AutoReconnectOff =>
    /\ \A s \in DOMAIN socks : socks[s].via = "start"
    /\ \A c \in DOMAIN calls :
         /\ Cardinality(SocketsOf(c)) <= 1
         /\ calls[c].sig \notin {"ClientClosedError", "HandlerNotSetError"}
              => Cardinality(SocketsOf(c)) = 1
         /\ \A k \in DOMAIN calls[c].stack :
              calls[c].stack[k].k \notin {"delay", "reconnect"}
         /\ \A s \in SocketsOf(c) :
              Settled(c) =>
                IF socks[s].opened THEN calls[c].sig \in {"ok", "Error"}
                ELSE calls[c].sig = IF socks[s].status # 0
                                    THEN parseConnectError(socks[s].status)
                                    ELSE "ServerError"

\* with autoReconnect off, the 'close' event of a socket leaves the start()
\* that waited for it about to resolve, and a start() that resumes with an
\* error other than a ClientError settles with that error
CloseResolvesStart ==
  AutoReconnectOff =>
    /\ \A s \in DOMAIN socks :
         (socks[s].readyState # "closed" /\ socks'[s].readyState = "closed") =>
           \A c \in DOMAIN calls :
             (/\ Waiting(c)
              /\ Top(calls[c].stack).k = "waitForClose"
              /\ Top(calls[c].stack).sock = s) =>
               /\ calls'[c].sig = "ok"
               /\ calls'[c].stack = <<StartFrame("waitForClose")>>
    /\ \A c \in DOMAIN calls :
         (Runnable(c) /\ calls'[c] # calls[c]) =>
           \/ calls[c].sig = "ok" /\ calls'[c].sig \in {"ok", "wait"}
           \/ calls[c].sig # "ok" /\ Settled(c)' /\ calls'[c].sig = calls[c].sig

\* C31: with autoReconnect = false the client makes exactly one connection
\* attempt per start(): a retryable failure of the attempt makes start()
\* reject with that error, a socket close after a successful connect makes
\* start() resolve, and there is no backoff wait and no second attempt
NoReconnectWhenOff == []OneAttemptPerStart /\ [][CloseResolvesStart]_vars

\* C31 witness: with autoReconnect off, one start() rejected with the
\* ServerError of its refused handshake and a later start() resolved after
\* its open socket closed; each made one socket
NoReconnectWitness ==
  /\ AutoReconnectOff
  /\ Len(calls) = 2
  /\ Settled(1) /\ calls[1].sig = "ServerError"
  /\ Settled(2) /\ calls[2].sig = "ok"
  /\ Len(socks) = 2
  /\ socks[1].by = 1 /\ ~socks[1].opened /\ socks[1].status = 500
  /\ socks[2].by = 2 /\ socks[2].opened /\ socks[2].readyState = "closed"
  /\ ~stopped

\* a pkcs7Unpad() call has been made
UnpadCall == input # <<>> /\ input.fn = "pkcs7Unpad"

\* the last byte p of buffer d is a padding length of at most one block
\* and the last p bytes of d all equal p
ValidPadding(d) ==
  /\ Len(d) > 0
  /\ d[Len(d)] >= 1
  /\ d[Len(d)] <= BlockSize
  /\ d[Len(d)] <= Len(d)
  /\ \A i \in (Len(d) - d[Len(d)] + 1) .. Len(d) : d[i] = d[Len(d)]

\* C32: pkcs7Unpad removes the trailing bytes iff the last byte p has
\* 1 <= p <= 16 and the last p bytes all equal p; in every other case
\* (p = 0, p > 16, p > length, bytes not all p) it returns the buffer
\* unchanged, and it never throws
StripIffValid ==
  UnpadCall =>
    /\ ~output.threw
    /\ output.value
         = IF ValidPadding(input.data)
           THEN SubSeq(input.data, 1,
                       Len(input.data) - input.data[Len(input.data)])
           ELSE input.data

\* the handler was called for event i
Invoked(i) == events[i].status \in {"running", "done"}

\* every frame the handler was called for parsed as JSON, was no goaway,
\* had topic and operation, a signature that verified and a payload that
\* decrypted; every ACK written is for a frame whose handler was called
\* and has settled
OnlyValidFramesReachHandler ==
  /\ \A i \in DOMAIN events :
       Invoked(i) =>
         /\ events[i].frame.json
         /\ events[i].frame.type # "goaway"
         /\ events[i].frame.topic
         /\ events[i].frame.signature
         /\ events[i].frame.nonce
         /\ events[i].frame.cipher
  /\ \A a \in DOMAIN acks :
       /\ acks[a].nonce \in DOMAIN events
       /\ events[acks[a].nonce].status = "done"

\* a frame that was dropped stays dropped: no later step calls the handler
\* for it
DroppedStaysDropped ==
  \A i \in DOMAIN events :
    events[i].status = "dropped" => events'[i] = events[i]

\* C33: a user handler is invoked for an inbound frame only if the frame
\* parsed as JSON, is not a goaway, has non-empty topic and operation, a
\* signature that verified and a payload that decrypted; a frame dropped
\* at any of these steps produces neither a handler invocation nor an ACK
DroppedFramesUnhandled ==
  []OnlyValidFramesReachHandler /\ [][DroppedStaysDropped]_vars

\* C33 witness: with ACK mode on, a frame whose signature did not verify
\* was dropped, a valid frame after it on the same open socket was handled
\* and acknowledged, and that is the only ACK
DroppedFramesWitness ==
  /\ ackMode
  /\ Len(events) = 2
  /\ ~events[1].frame.signature
  /\ events[1].frame.json /\ events[1].frame.topic
  /\ events[1].status = "dropped"
  /\ events[2].status = "done"
  /\ events[2].sock = events[1].sock
  /\ Len(acks) = 1
  /\ acks[1].nonce = 2

\* frame f is a goaway as handleMessage() tells it
IsGoAway(f) == f.json /\ f.type = "goaway"

\* no goaway had a handler called or an ACK written
GoAwayNeverHandled ==
  /\ \A i \in DOMAIN events :
       IsGoAway(events[i].frame) => events[i].status = "goaway"
  /\ \A a \in DOMAIN acks : ~IsGoAway(events[acks[a].nonce].frame)

\* a step that took a goaway changed reconnectConfig as the goaway says;
\* every other step left reconnectConfig as it was
ConfigOnlyByGoAway ==
  IF /\ Len(events') = Len(events) + 1
     /\ IsGoAway(events'[Len(events')].frame)
  THEN LET f == events'[Len(events')].frame
       IN  IF f.reason = CONNECTION_REPLACED
           THEN reconnectConfig' =
                  [reconnectConfig EXCEPT !.autoReconnect = FALSE]
           ELSE IF f.reconnect_ms > 0
           THEN reconnectConfig' =
                  [reconnectConfig EXCEPT !.baseInterval = f.reconnect_ms]
           ELSE reconnectConfig' = reconnectConfig
  ELSE reconnectConfig' = reconnectConfig

\* C34: a goaway frame is never dispatched to a handler and never ACKed,
\* and the reconnect config is changed only by goaway handling: a
\* connection_replaced goaway changes only autoReconnect (to false,
\* whatever its reconnect_ms), any other goaway changes at most
\* baseInterval (only when reconnect_ms > 0), and no other operation
\* changes any field of the reconnect config
GoAwayOnlyChangesConfig ==
  []GoAwayNeverHandled /\ [][ConfigOnlyByGoAway]_vars

\* C34 witness: after an event was handled and acknowledged, a
\* connection_replaced goaway that carries a reconnect_ms came while
\* autoReconnect was on; autoReconnect is off, baseInterval is the one
\* the client was built with, and the only ACK is the event's
GoAwayConfigWitness ==
  /\ Len(events) = 2
  /\ events[1].status = "done"
  /\ events[2].frame = ReplacedSuggesting
  /\ events[2].autoReconnect
  /\ ~reconnectConfig.autoReconnect
  /\ reconnectConfig.baseInterval = RECONNECT_BASE_INTERVAL
  /\ Len(acks) = 1
  /\ acks[1].nonce = 1

\* call c waits in the delay() of reconnect()
BackoffPending(c) == Waiting(c) /\ Top(calls[c].stack).k = "delay"

\* C35: whenever a backoff wait is pending and stop() has not been called,
\* connectionState is Reconnecting, for the first and for every
\* subsequent wait of a reconnect loop
BackoffIsReconnecting ==
  \A c \in DOMAIN calls :
    (BackoffPending(c) /\ ~stopped) => state.connectionState = Reconnecting

\* every ping logged on a socket was answered by one pong with the ping's
\* payload, and nothing else was written in answer
PongPerPing ==
  \A s \in DOMAIN socks :
    /\ Len(socks[s].sent) = Len(socks[s].pings)
    /\ \A k \in DOMAIN socks[s].pings :
         socks[s].sent[k] = [opcode |-> "pong", data |-> socks[s].pings[k]]

\* at most one pong-deadline timer is pending, the one this.pongTimeoutTimer
\* holds
OneTimer == Cardinality(timers) <= 1 /\ timers \subseteq {pongTimeoutTimer}

\* a step that logs a ping leaves the deadline armed
PingRestartsDeadline ==
  (\E s \in DOMAIN socks : Len(socks'[s].pings) > Len(socks[s].pings))
    => /\ pongTimeoutTimer' \in timers'
       /\ timers' = {pongTimeoutTimer'}

\* C36: every server ping received on the open socket is answered with
\* exactly one pong carrying the same payload and restarts the pong
\* deadline; at most one pong-deadline timer is pending at any time; the
\* client writes no ping
PingPongContract ==
  [](PongPerPing /\ OneTimer) /\ [][PingRestartsDeadline]_vars

\* C36 witness: an open socket has received two pings, the second with a
\* payload other than the first's, each answered by its pong, and one
\* timer is pending
PingPongWitness ==
  \E s \in DOMAIN socks :
    /\ socks[s].readyState = "open"
    /\ ws = s
    /\ Len(socks[s].pings) = 2
    /\ socks[s].pings[1] = <<112, 49>>
    /\ socks[s].pings[2] = <<>>
    /\ socks[s].sent = <<pong(<<112, 49>>), pong(<<>>)>>
    /\ Cardinality(timers) = 1

\* C37: an ACK is only ever written to the connection on which its event
\* was received: no ACK for an event is sent on any other socket
AckOnEventsSocket ==
  \A a \in DOMAIN acks : acks[a].sock = events[acks[a].nonce].sock

\* every start() made has settled and every socket made has closed
AllSettledAndClosed ==
  /\ calls # <<>>
  /\ \A c \in DOMAIN calls : Settled(c)
  /\ \E s \in DOMAIN socks : socks[s].opened
  /\ \A s \in DOMAIN socks : socks[s].readyState \in {"closed", "refused"}

\* C38: isConnected() returns true only while the client holds an open
\* socket: after the socket has closed and start() has settled,
\* isConnected() returns false and connectionState is not Connected
NotConnectedAfterClose ==
  AllSettledAndClosed =>
    ~isConnected /\ state.connectionState # Connected

\* two wire messages have been routed
RoutingCall == input # <<>> /\ input.fn = "handleEventMessage"

\* wire messages m and n agree on every field the signature covers and on
\* the signature
SignedAlike(m, n) ==
  /\ m.topic = n.topic
  /\ m.nonce = n.nonce
  /\ m.time = n.time
  /\ m.encrypted_data = n.encrypted_data
  /\ m.signature = n.signature

\* C39: routing is determined by signed data: any two wire event messages
\* that agree on every field covered by the signature and on the signature
\* itself, and that both pass verification, are dispatched under the same
\* event code
RoutingBySignedData ==
  ( /\ RoutingCall
    /\ SignedAlike(input.msgs[1], input.msgs[2])
    /\ output.value[1].dispatched
    /\ output.value[2].dispatched )
  => output.value[1].eventCode = output.value[2].eventCode

\* C40: whenever the client is Connected with an open socket, a
\* pong-deadline timer is armed: no event of an earlier socket can clear
\* the timer that guards the current connection
ConnectedIsGuarded ==
  (state.connectionState = Connected /\ socketOpen) => Armed

====
